---- MODULE Spec2Model ----
(***************************************************************************)
(* Claim validation subsystem of lovaslide                                 *)
(* (backend/test_docs/validation/validation_agent.py).                     *)
(*                                                                         *)
(* Text is modelled as sequences of one-character strings, so that         *)
(* str.lower() and the substring test `pat in s` are computed as Python    *)
(* computes them.  Times are in units of 0.1 s (SEARCH_DELAY is 0.1 s).    *)
(* Scores and confidences are in hundredths (0.9 is 90).                   *)
(***************************************************************************)
EXTENDS Integers, Sequences, FiniteSets, TLC

----------------------------------------------------------------------------
(* Text: str.lower(), `in`, slicing                                        *)

UpperCase == <<"A", "B", "C", "D", "E", "F", "G", "H", "I", "J", "K", "L", "M", "N", "O", "P", "Q", "R", "S", "T", "U", "V", "W", "X", "Y", "Z">>
LowerCase == <<"a", "b", "c", "d", "e", "f", "g", "h", "i", "j", "k", "l", "m", "n", "o", "p", "q", "r", "s", "t", "u", "v", "w", "x", "y", "z">>

LowerChar(ch) ==
    IF \E i \in DOMAIN UpperCase : UpperCase[i] = ch
    THEN LowerCase[CHOOSE i \in DOMAIN UpperCase : UpperCase[i] = ch]
    ELSE ch

\* s.lower()
Lower(s) == [i \in 1..Len(s) |-> LowerChar(s[i])]

\* pat in s
Contains(pat, s) ==
    \E i \in 0..(Len(s) - Len(pat)) : \A j \in 1..Len(pat) : s[i + j] = pat[j]

\* s[:n]
Prefix(s, n) == IF Len(s) <= n THEN s ELSE SubSeq(s, 1, n)

\* d.get(k, default) on a dict modelled as a function on its keys
Get(d, k, default) == IF k \in DOMAIN d THEN d[k] ELSE default

----------------------------------------------------------------------------
(* _should_skip_web_search                                                 *)

kw_slide == <<"s", "l", "i", "d", "e">>
kw_presentation == <<"p", "r", "e", "s", "e", "n", "t", "a", "t", "i", "o", "n">>
kw_document == <<"d", "o", "c", "u", "m", "e", "n", "t">>
kw_text == <<"t", "e", "x", "t">>
kw_content == <<"c", "o", "n", "t", "e", "n", "t">>
kw_generated == <<"g", "e", "n", "e", "r", "a", "t", "e", "d">>
kw_created == <<"c", "r", "e", "a", "t", "e", "d">>
kw_produced == <<"p", "r", "o", "d", "u", "c", "e", "d">>
kw_developed == <<"d", "e", "v", "e", "l", "o", "p", "e", "d">>

skip_patterns ==
    {kw_slide, kw_presentation, kw_document, kw_text, kw_content,
     kw_generated, kw_created, kw_produced, kw_developed}

should_skip_no_lower(c) == \E p \in skip_patterns : Contains(p, c)

should_skip_web_search(c) == \E p \in skip_patterns : Contains(p, Lower(c))

\* The claim texts the model draws from.
claim_gdp == <<"G", "D", "P", " ", "u", "p", " ", "3", "%">>
claim_this_presentation == <<"I", "n", " ", "t", "h", "i", "s", " ", "p", "r", "e", "s", "e", "n", "t", "a", "t", "i", "o", "n">>
claim_upper_slide == <<"S", "L", "I", "D", "E", " ", "2">>
claim_context == <<"I", "n", " ", "C", "o", "n", "t", "e", "x", "t">>

ClaimTexts == {claim_gdp, claim_this_presentation, claim_upper_slide, claim_context}

\* The claims the concurrent workers are given.
WorkerClaims == {claim_gdp, claim_this_presentation}

----------------------------------------------------------------------------
(* _calculate_reliability_score                                            *)

d_wikipedia == <<"w", "i", "k", "i", "p", "e", "d", "i", "a", ".", "o", "r", "g">>
d_gov == <<"g", "o", "v">>
d_edu == <<"e", "d", "u">>
d_reuters == <<"r", "e", "u", "t", "e", "r", "s", ".", "c", "o", "m">>
d_bbc == <<"b", "b", "c", ".", "c", "o", "m">>
d_ap == <<"a", "p", ".", "o", "r", "g">>
d_factcheck == <<"f", "a", "c", "t", "c", "h", "e", "c", "k", ".", "o", "r", "g">>
d_snopes == <<"s", "n", "o", "p", "e", "s", ".", "c", "o", "m">>
d_politifact == <<"p", "o", "l", "i", "t", "i", "f", "a", "c", "t", ".", "c", "o", "m">>
d_who == <<"w", "h", "o", ".", "i", "n", "t">>
d_cdc == <<"c", "d", "c", ".", "g", "o", "v">>
d_fda == <<"f", "d", "a", ".", "g", "o", "v">>
d_sec == <<"s", "e", "c", ".", "g", "o", "v">>
d_bls == <<"b", "l", "s", ".", "g", "o", "v">>
d_cnn == <<"c", "n", "n", ".", "c", "o", "m">>
d_nytimes == <<"n", "y", "t", "i", "m", "e", "s", ".", "c", "o", "m">>
d_wsj == <<"w", "s", "j", ".", "c", "o", "m">>
d_bloomberg == <<"b", "l", "o", "o", "m", "b", "e", "r", "g", ".", "c", "o", "m">>
d_forbes == <<"f", "o", "r", "b", "e", "s", ".", "c", "o", "m">>
d_techcrunch == <<"t", "e", "c", "h", "c", "r", "u", "n", "c", "h", ".", "c", "o", "m">>
d_wired == <<"w", "i", "r", "e", "d", ".", "c", "o", "m">>
d_hbr == <<"h", "b", "r", ".", "o", "r", "g">>
d_mckinsey == <<"m", "c", "k", "i", "n", "s", "e", "y", ".", "c", "o", "m">>
d_deloitte == <<"d", "e", "l", "o", "i", "t", "t", "e", ".", "c", "o", "m">>
d_pwc == <<"p", "w", "c", ".", "c", "o", "m">>
d_kpmg == <<"k", "p", "m", "g", ".", "c", "o", "m">>

high_reliability_domains ==
    {d_wikipedia, d_gov, d_edu, d_reuters, d_bbc, d_ap, d_factcheck, d_snopes,
     d_politifact, d_who, d_cdc, d_fda, d_sec, d_bls}

medium_reliability_domains ==
    {d_cnn, d_nytimes, d_wsj, d_bloomberg, d_forbes, d_techcrunch, d_wired,
     d_hbr, d_mckinsey, d_deloitte, d_pwc, d_kpmg}

\* the two loops of lines 567-573 in the other order
score_medium_first(search_result) ==
    LET url == Lower(Get(search_result, "link", <<>>))
    IN  IF \E d \in medium_reliability_domains : Contains(d, url) THEN 70
        ELSE IF \E d \in high_reliability_domains : Contains(d, url) THEN 90
        ELSE 50

\* lines 538-575; the title is read and not used
calculate_reliability_score(search_result) ==
    LET url == Lower(Get(search_result, "link", <<>>))
    IN  IF \E d \in high_reliability_domains : Contains(d, url) THEN 90
        ELSE IF \E d \in medium_reliability_domains : Contains(d, url) THEN 70
        ELSE 50

\* ProofSource(title, url, snippet, reliability_score) built from one result
MakeProofSource(result) ==
    [title |-> Get(result, "title", <<>>),
     url |-> Get(result, "link", <<>>),
     snippet |-> Get(result, "snippet", <<>>),
     reliability_score |-> calculate_reliability_score(result)]

\* the list left in the provider's order
Unsorted(s) == s

\* list.sort(key=reliability_score, reverse=True): stable, descending
RECURSIVE SortByReliability(_)
SortByReliability(s) ==
    IF Len(s) <= 1 THEN s
    ELSE LET rest == SortByReliability(Tail(s))
             x == Head(s)
             \* x stays ahead of the later elements with an equal key
             k == Cardinality({i \in 1..Len(rest) :
                                 rest[i].reliability_score > x.reliability_score})
         IN  SubSeq(rest, 1, k) \o <<x>> \o SubSeq(rest, k + 1, Len(rest))

\* lines 498-511: the proof sources built from the body of a 200 response
SourcesFromBody(data) ==
    LET organic == IF "organic_results" \in DOMAIN data THEN data["organic_results"] ELSE <<>>
        all_sources == [i \in 1..Len(organic) |-> MakeProofSource(organic[i])]
    IN  Prefix(SortByReliability(all_sources), 2)

----------------------------------------------------------------------------
(* Values: JSON values are records tagged by their Python type             *)
(* (str, int, float, bool, null, list, dict); a str carries its length and *)
(* what float() makes of it.  Python text taken from the response is       *)
(* [t |-> "text", chars |-> ...].                                          *)

JStr(s, n) == [t |-> "str", s |-> s, len |-> n, isnum |-> FALSE, num |-> 0]
JFloat(h) == [t |-> "float", n |-> h]
JList(items) == [t |-> "list", items |-> items]
Text(chars) == [t |-> "text", chars |-> chars]
None == [t |-> "none"]

\* bool(v)
Truthy(v) ==
    CASE v.t = "null" -> FALSE
      [] v.t = "bool" -> v.b
      [] v.t \in {"int", "float"} -> v.n # 0
      [] v.t = "str" -> v.len > 0
      [] v.t = "list" -> Len(v.items) > 0
      [] v.t = "dict" -> DOMAIN v.d # {}

\* isinstance(v, int): bool is a subclass of int
IsInstanceInt(v) == v.t \in {"int", "bool"}
IntValue(v) == IF v.t = "bool" THEN (IF v.b THEN 1 ELSE 0) ELSE v.n

\* `for x in v` works on list, str and dict; str yields characters and dict
\* yields keys, which are never ints
Iterable(v) == v.t \in {"list", "str", "dict"}
IterItems(v) == IF v.t = "list" THEN v.items ELSE <<>>

\* s.find(c), s.rfind(c): 0-based, -1 when absent
Find(s, c) ==
    IF \E i \in 1..Len(s) : s[i] = c
    THEN (CHOOSE i \in 1..Len(s) : s[i] = c /\ \A j \in 1..(i - 1) : s[j] # c) - 1
    ELSE -1

RFind(s, c) ==
    IF \E i \in 1..Len(s) : s[i] = c
    THEN (CHOOSE i \in 1..Len(s) : s[i] = c /\ \A j \in (i + 1)..Len(s) : s[j] # c) - 1
    ELSE -1

\* s[a:b] for 0 <= a and 0 <= b <= len(s)
Slice(s, a, b) == IF b <= a THEN <<>> ELSE SubSeq(s, a + 1, b)

----------------------------------------------------------------------------
(* The validation model's responses.  `json` is what json.loads returns    *)
(* for response[response.find('{'):response.rfind('}')+1].                 *)

w_valid == <<"v", "a", "l", "i", "d">>
w_invalid == <<"i", "n", "v", "a", "l", "i", "d">>
w_uncertain == <<"u", "n", "c", "e", "r", "t", "a", "i", "n">>
w_unclear == <<"u", "n", "c", "l", "e", "a", "r">>
w_dots == <<".", ".", ".">>

explanation_limit == 500

resp_empty ==
    [t |-> "text",
     text |-> <<>>,
     json |-> [t |-> "JSONDecodeError"]]

resp_plain_valid ==
    [t |-> "text",
     text |-> <<"T", "h", "e", " ", "c", "l", "a", "i", "m", " ", "i", "s", " ", "v", "a", "l", "i", "d", ".">>,
     json |-> [t |-> "JSONDecodeError"]]

resp_plain_invalid ==
    [t |-> "text",
     text |-> <<"T", "h", "i", "s", " ", "i", "s", " ", "I", "n", "v", "a", "l", "i", "d">>,
     json |-> [t |-> "JSONDecodeError"]]

resp_plain_uncertain ==
    [t |-> "text",
     text |-> <<"U", "N", "C", "E", "R", "T", "A", "I", "N">>,
     json |-> [t |-> "JSONDecodeError"]]

resp_plain_unclear ==
    [t |-> "text",
     text |-> <<"u", "n", "c", "l", "e", "a", "r">>,
     json |-> [t |-> "JSONDecodeError"]]

resp_plain_none ==
    [t |-> "text",
     text |-> <<"n", "o", " ", "i", "d", "e", "a">>,
     json |-> [t |-> "JSONDecodeError"]]

resp_open_only ==
    [t |-> "text",
     text |-> <<"{", " ", "o", "o", "p", "s">>,
     json |-> [t |-> "JSONDecodeError"]]

resp_close_only ==
    [t |-> "text",
     text |-> <<"v", "a", "l", "i", "d", " ", "}">>,
     json |-> [t |-> "JSONDecodeError"]]

resp_reversed ==
    [t |-> "text",
     text |-> <<"}", " ", "u", "n", "c", "e", "r", "t", "a", "i", "n", " ", "{">>,
     json |-> [t |-> "JSONDecodeError"]]

resp_nonjson ==
    [t |-> "text",
     text |-> <<"{", "n", "o", "t", " ", "j", "s", "o", "n", ":", " ", "i", "n", "v", "a", "l", "i", "d", "}">>,
     json |-> [t |-> "JSONDecodeError"]]

resp_two_objects ==
    [t |-> "text",
     text |-> <<"a", " ", "{", "\"", "s", "t", "a", "t", "u", "s", "\"", ":", "\"", "v", "a", "l", "i", "d", "\"", "}", " ", "b", " ", "{", "\"", "x", "\"", ":", "1", "}">>,
     json |-> [t |-> "JSONDecodeError"]]

resp_ok_valid ==
    [t |-> "text",
     text |-> <<"{", "\"", "s", "t", "a", "t", "u", "s", "\"", ":", "\"", "v", "a", "l", "i", "d", "\"", ",", "\"", "c", "o", "n", "f", "i", "d", "e", "n", "c", "e", "_", "s", "c", "o", "r", "e", "\"", ":", "0", ".", "9", ",", "\"", "e", "x", "p", "l", "a", "n", "a", "t", "i", "o", "n", "\"", ":", "\"", "o", "k", "\"", ",", "\"", "p", "r", "o", "o", "f", "_", "s", "o", "u", "r", "c", "e", "s", "_", "u", "s", "e", "d", "\"", ":", "[", "1", "]", ",", "\"", "r", "e", "c", "o", "m", "m", "e", "n", "d", "a", "t", "i", "o", "n", "s", "\"", ":", "[", "\"", "r", "\"", "]", "}">>,
     json |-> [t |-> "dict", d |-> [status |-> [t |-> "str", s |-> "valid", len |-> 5, isnum |-> FALSE, num |-> 0], confidence_score |-> [t |-> "float", n |-> 90], explanation |-> [t |-> "str", s |-> "ok", len |-> 2, isnum |-> FALSE, num |-> 0], proof_sources_used |-> [t |-> "list", items |-> <<[t |-> "int", n |-> 1]>>], recommendations |-> [t |-> "list", items |-> <<[t |-> "str", s |-> "r", len |-> 1, isnum |-> FALSE, num |-> 0]>>]]]]

resp_wrapped_invalid ==
    [t |-> "text",
     text |-> <<"S", "u", "r", "e", ":", " ", "{", "\"", "s", "t", "a", "t", "u", "s", "\"", ":", "\"", "i", "n", "v", "a", "l", "i", "d", "\"", ",", "\"", "c", "o", "n", "f", "i", "d", "e", "n", "c", "e", "_", "s", "c", "o", "r", "e", "\"", ":", "0", ".", "6", ",", "\"", "e", "x", "p", "l", "a", "n", "a", "t", "i", "o", "n", "\"", ":", "\"", "n", "o", "\"", ",", "\"", "r", "e", "p", "l", "a", "c", "e", "m", "e", "n", "t", "_", "s", "u", "g", "g", "e", "s", "t", "i", "o", "n", "\"", ":", "{", "\"", "s", "u", "g", "g", "e", "s", "t", "e", "d", "_", "r", "e", "p", "l", "a", "c", "e", "m", "e", "n", "t", "\"", ":", "\"", "x", "\"", ",", "\"", "e", "x", "p", "l", "a", "n", "a", "t", "i", "o", "n", "\"", ":", "\"", "y", "\"", ",", "\"", "p", "r", "o", "o", "f", "_", "s", "o", "u", "r", "c", "e", "s", "\"", ":", "[", "2", ",", "7", "]", "}", "}", " ", "d", "o", "n", "e">>,
     json |-> [t |-> "dict", d |-> [status |-> [t |-> "str", s |-> "invalid", len |-> 7, isnum |-> FALSE, num |-> 0], confidence_score |-> [t |-> "float", n |-> 60], explanation |-> [t |-> "str", s |-> "no", len |-> 2, isnum |-> FALSE, num |-> 0], replacement_suggestion |-> [t |-> "dict", d |-> [suggested_replacement |-> [t |-> "str", s |-> "x", len |-> 1, isnum |-> FALSE, num |-> 0], explanation |-> [t |-> "str", s |-> "y", len |-> 1, isnum |-> FALSE, num |-> 0], proof_sources |-> [t |-> "list", items |-> <<[t |-> "int", n |-> 2], [t |-> "int", n |-> 7]>>]]]]]]

resp_valid_with_replacement ==
    [t |-> "text",
     text |-> <<"{", "\"", "s", "t", "a", "t", "u", "s", "\"", ":", "\"", "v", "a", "l", "i", "d", "\"", ",", "\"", "c", "o", "n", "f", "i", "d", "e", "n", "c", "e", "_", "s", "c", "o", "r", "e", "\"", ":", "0", ".", "8", ",", "\"", "r", "e", "p", "l", "a", "c", "e", "m", "e", "n", "t", "_", "s", "u", "g", "g", "e", "s", "t", "i", "o", "n", "\"", ":", "{", "\"", "s", "u", "g", "g", "e", "s", "t", "e", "d", "_", "r", "e", "p", "l", "a", "c", "e", "m", "e", "n", "t", "\"", ":", "\"", "x", "\"", "}", "}">>,
     json |-> [t |-> "dict", d |-> [status |-> [t |-> "str", s |-> "valid", len |-> 5, isnum |-> FALSE, num |-> 0], confidence_score |-> [t |-> "float", n |-> 80], replacement_suggestion |-> [t |-> "dict", d |-> [suggested_replacement |-> [t |-> "str", s |-> "x", len |-> 1, isnum |-> FALSE, num |-> 0]]]]]]

resp_needs_review ==
    [t |-> "text",
     text |-> <<"{", "\"", "s", "t", "a", "t", "u", "s", "\"", ":", "\"", "n", "e", "e", "d", "s", "_", "r", "e", "v", "i", "e", "w", "\"", ",", "\"", "c", "o", "n", "f", "i", "d", "e", "n", "c", "e", "_", "s", "c", "o", "r", "e", "\"", ":", "0", ".", "5", ",", "\"", "e", "x", "p", "l", "a", "n", "a", "t", "i", "o", "n", "\"", ":", "\"", "h", "m", "\"", ",", "\"", "r", "e", "c", "o", "m", "m", "e", "n", "d", "a", "t", "i", "o", "n", "s", "\"", ":", "[", "]", "}">>,
     json |-> [t |-> "dict", d |-> [status |-> [t |-> "str", s |-> "needs_review", len |-> 12, isnum |-> FALSE, num |-> 0], confidence_score |-> [t |-> "float", n |-> 50], explanation |-> [t |-> "str", s |-> "hm", len |-> 2, isnum |-> FALSE, num |-> 0], recommendations |-> [t |-> "list", items |-> <<>>]]]]

resp_uncertain_mixed_idx ==
    [t |-> "text",
     text |-> <<"{", "\"", "s", "t", "a", "t", "u", "s", "\"", ":", "\"", "u", "n", "c", "e", "r", "t", "a", "i", "n", "\"", ",", "\"", "c", "o", "n", "f", "i", "d", "e", "n", "c", "e", "_", "s", "c", "o", "r", "e", "\"", ":", "0", ".", "3", ",", "\"", "p", "r", "o", "o", "f", "_", "s", "o", "u", "r", "c", "e", "s", "_", "u", "s", "e", "d", "\"", ":", "[", "0", ",", "-", "1", ",", "3", ",", "\"", "1", "\"", ",", "1", ".", "0", ",", "t", "r", "u", "e", ",", "2", "]", "}">>,
     json |-> [t |-> "dict", d |-> [status |-> [t |-> "str", s |-> "uncertain", len |-> 9, isnum |-> FALSE, num |-> 0], confidence_score |-> [t |-> "float", n |-> 30], proof_sources_used |-> [t |-> "list", items |-> <<[t |-> "int", n |-> 0], [t |-> "int", n |-> -1], [t |-> "int", n |-> 3], [t |-> "str", s |-> "1", len |-> 1, isnum |-> TRUE, num |-> 100], [t |-> "float", n |-> 100], [t |-> "bool", b |-> TRUE], [t |-> "int", n |-> 2]>>]]]]

resp_valid_no_idx ==
    [t |-> "text",
     text |-> <<"{", "\"", "s", "t", "a", "t", "u", "s", "\"", ":", "\"", "v", "a", "l", "i", "d", "\"", ",", "\"", "c", "o", "n", "f", "i", "d", "e", "n", "c", "e", "_", "s", "c", "o", "r", "e", "\"", ":", "0", ".", "9", "5", ",", "\"", "e", "x", "p", "l", "a", "n", "a", "t", "i", "o", "n", "\"", ":", "\"", "y", "e", "s", "\"", "}">>,
     json |-> [t |-> "dict", d |-> [status |-> [t |-> "str", s |-> "valid", len |-> 5, isnum |-> FALSE, num |-> 0], confidence_score |-> [t |-> "float", n |-> 95], explanation |-> [t |-> "str", s |-> "yes", len |-> 3, isnum |-> FALSE, num |-> 0]]]]

resp_valid_bad_idx ==
    [t |-> "text",
     text |-> <<"{", "\"", "s", "t", "a", "t", "u", "s", "\"", ":", "\"", "v", "a", "l", "i", "d", "\"", ",", "\"", "c", "o", "n", "f", "i", "d", "e", "n", "c", "e", "_", "s", "c", "o", "r", "e", "\"", ":", "1", ",", "\"", "p", "r", "o", "o", "f", "_", "s", "o", "u", "r", "c", "e", "s", "_", "u", "s", "e", "d", "\"", ":", "[", "9", "]", "}">>,
     json |-> [t |-> "dict", d |-> [status |-> [t |-> "str", s |-> "valid", len |-> 5, isnum |-> FALSE, num |-> 0], confidence_score |-> [t |-> "int", n |-> 1], proof_sources_used |-> [t |-> "list", items |-> <<[t |-> "int", n |-> 9]>>]]]]

resp_status_upper ==
    [t |-> "text",
     text |-> <<"{", "\"", "s", "t", "a", "t", "u", "s", "\"", ":", "\"", "V", "A", "L", "I", "D", "\"", ",", "\"", "c", "o", "n", "f", "i", "d", "e", "n", "c", "e", "_", "s", "c", "o", "r", "e", "\"", ":", "0", ".", "9", "}">>,
     json |-> [t |-> "dict", d |-> [status |-> [t |-> "str", s |-> "VALID", len |-> 5, isnum |-> FALSE, num |-> 0], confidence_score |-> [t |-> "float", n |-> 90]]]]

resp_status_bogus ==
    [t |-> "text",
     text |-> <<"{", "\"", "s", "t", "a", "t", "u", "s", "\"", ":", "\"", "b", "o", "g", "u", "s", "\"", ",", "\"", "c", "o", "n", "f", "i", "d", "e", "n", "c", "e", "_", "s", "c", "o", "r", "e", "\"", ":", "0", ".", "9", "}">>,
     json |-> [t |-> "dict", d |-> [status |-> [t |-> "str", s |-> "bogus", len |-> 5, isnum |-> FALSE, num |-> 0], confidence_score |-> [t |-> "float", n |-> 90]]]]

resp_status_null ==
    [t |-> "text",
     text |-> <<"{", "\"", "s", "t", "a", "t", "u", "s", "\"", ":", "n", "u", "l", "l", "}">>,
     json |-> [t |-> "dict", d |-> [status |-> [t |-> "null"]]]]

resp_status_list ==
    [t |-> "text",
     text |-> <<"{", "\"", "s", "t", "a", "t", "u", "s", "\"", ":", "[", "\"", "v", "a", "l", "i", "d", "\"", "]", "}">>,
     json |-> [t |-> "dict", d |-> [status |-> [t |-> "list", items |-> <<[t |-> "str", s |-> "valid", len |-> 5, isnum |-> FALSE, num |-> 0]>>]]]]

resp_empty_object ==
    [t |-> "text",
     text |-> <<"{", "}">>,
     json |-> [t |-> "dict", d |-> [k \in {} |-> 0]]]

resp_conf_high ==
    [t |-> "text",
     text |-> <<"{", "\"", "s", "t", "a", "t", "u", "s", "\"", ":", "\"", "v", "a", "l", "i", "d", "\"", ",", "\"", "c", "o", "n", "f", "i", "d", "e", "n", "c", "e", "_", "s", "c", "o", "r", "e", "\"", ":", "1", ".", "5", ",", "\"", "e", "x", "p", "l", "a", "n", "a", "t", "i", "o", "n", "\"", ":", "\"", "s", "u", "r", "e", "\"", "}">>,
     json |-> [t |-> "dict", d |-> [status |-> [t |-> "str", s |-> "valid", len |-> 5, isnum |-> FALSE, num |-> 0], confidence_score |-> [t |-> "float", n |-> 150], explanation |-> [t |-> "str", s |-> "sure", len |-> 4, isnum |-> FALSE, num |-> 0]]]]

resp_conf_negative ==
    [t |-> "text",
     text |-> <<"{", "\"", "s", "t", "a", "t", "u", "s", "\"", ":", "\"", "i", "n", "v", "a", "l", "i", "d", "\"", ",", "\"", "c", "o", "n", "f", "i", "d", "e", "n", "c", "e", "_", "s", "c", "o", "r", "e", "\"", ":", "-", "0", ".", "2", "}">>,
     json |-> [t |-> "dict", d |-> [status |-> [t |-> "str", s |-> "invalid", len |-> 7, isnum |-> FALSE, num |-> 0], confidence_score |-> [t |-> "float", n |-> -20]]]]

resp_conf_numstr ==
    [t |-> "text",
     text |-> <<"{", "\"", "s", "t", "a", "t", "u", "s", "\"", ":", "\"", "v", "a", "l", "i", "d", "\"", ",", "\"", "c", "o", "n", "f", "i", "d", "e", "n", "c", "e", "_", "s", "c", "o", "r", "e", "\"", ":", "\"", "0", ".", "9", "\"", "}">>,
     json |-> [t |-> "dict", d |-> [status |-> [t |-> "str", s |-> "valid", len |-> 5, isnum |-> FALSE, num |-> 0], confidence_score |-> [t |-> "str", s |-> "0.9", len |-> 3, isnum |-> TRUE, num |-> 90]]]]

resp_conf_word ==
    [t |-> "text",
     text |-> <<"{", "\"", "s", "t", "a", "t", "u", "s", "\"", ":", "\"", "u", "n", "c", "e", "r", "t", "a", "i", "n", "\"", ",", "\"", "c", "o", "n", "f", "i", "d", "e", "n", "c", "e", "_", "s", "c", "o", "r", "e", "\"", ":", "\"", "h", "i", "g", "h", "\"", "}">>,
     json |-> [t |-> "dict", d |-> [status |-> [t |-> "str", s |-> "uncertain", len |-> 9, isnum |-> FALSE, num |-> 0], confidence_score |-> [t |-> "str", s |-> "high", len |-> 4, isnum |-> FALSE, num |-> 0]]]]

resp_conf_null ==
    [t |-> "text",
     text |-> <<"{", "\"", "s", "t", "a", "t", "u", "s", "\"", ":", "\"", "v", "a", "l", "i", "d", "\"", ",", "\"", "c", "o", "n", "f", "i", "d", "e", "n", "c", "e", "_", "s", "c", "o", "r", "e", "\"", ":", "n", "u", "l", "l", "}">>,
     json |-> [t |-> "dict", d |-> [status |-> [t |-> "str", s |-> "valid", len |-> 5, isnum |-> FALSE, num |-> 0], confidence_score |-> [t |-> "null"]]]]

resp_conf_true ==
    [t |-> "text",
     text |-> <<"{", "\"", "s", "t", "a", "t", "u", "s", "\"", ":", "\"", "u", "n", "c", "e", "r", "t", "a", "i", "n", "\"", ",", "\"", "c", "o", "n", "f", "i", "d", "e", "n", "c", "e", "_", "s", "c", "o", "r", "e", "\"", ":", "t", "r", "u", "e", "}">>,
     json |-> [t |-> "dict", d |-> [status |-> [t |-> "str", s |-> "uncertain", len |-> 9, isnum |-> FALSE, num |-> 0], confidence_score |-> [t |-> "bool", b |-> TRUE]]]]

resp_idx_number ==
    [t |-> "text",
     text |-> <<"{", "\"", "s", "t", "a", "t", "u", "s", "\"", ":", "\"", "v", "a", "l", "i", "d", "\"", ",", "\"", "p", "r", "o", "o", "f", "_", "s", "o", "u", "r", "c", "e", "s", "_", "u", "s", "e", "d", "\"", ":", "5", "}">>,
     json |-> [t |-> "dict", d |-> [status |-> [t |-> "str", s |-> "valid", len |-> 5, isnum |-> FALSE, num |-> 0], proof_sources_used |-> [t |-> "int", n |-> 5]]]]

resp_idx_string ==
    [t |-> "text",
     text |-> <<"{", "\"", "s", "t", "a", "t", "u", "s", "\"", ":", "\"", "v", "a", "l", "i", "d", "\"", ",", "\"", "c", "o", "n", "f", "i", "d", "e", "n", "c", "e", "_", "s", "c", "o", "r", "e", "\"", ":", "0", ".", "7", ",", "\"", "p", "r", "o", "o", "f", "_", "s", "o", "u", "r", "c", "e", "s", "_", "u", "s", "e", "d", "\"", ":", "\"", "1", "2", "\"", "}">>,
     json |-> [t |-> "dict", d |-> [status |-> [t |-> "str", s |-> "valid", len |-> 5, isnum |-> FALSE, num |-> 0], confidence_score |-> [t |-> "float", n |-> 70], proof_sources_used |-> [t |-> "str", s |-> "12", len |-> 2, isnum |-> TRUE, num |-> 1200]]]]

resp_bogus_idx_number ==
    [t |-> "text",
     text |-> <<"{", "\"", "s", "t", "a", "t", "u", "s", "\"", ":", "\"", "b", "o", "g", "u", "s", "\"", ",", "\"", "p", "r", "o", "o", "f", "_", "s", "o", "u", "r", "c", "e", "s", "_", "u", "s", "e", "d", "\"", ":", "5", "}">>,
     json |-> [t |-> "dict", d |-> [status |-> [t |-> "str", s |-> "bogus", len |-> 5, isnum |-> FALSE, num |-> 0], proof_sources_used |-> [t |-> "int", n |-> 5]]]]

resp_repl_string ==
    [t |-> "text",
     text |-> <<"{", "\"", "s", "t", "a", "t", "u", "s", "\"", ":", "\"", "i", "n", "v", "a", "l", "i", "d", "\"", ",", "\"", "c", "o", "n", "f", "i", "d", "e", "n", "c", "e", "_", "s", "c", "o", "r", "e", "\"", ":", "0", ".", "7", ",", "\"", "r", "e", "p", "l", "a", "c", "e", "m", "e", "n", "t", "_", "s", "u", "g", "g", "e", "s", "t", "i", "o", "n", "\"", ":", "\"", "u", "s", "e", " ", "x", "\"", "}">>,
     json |-> [t |-> "dict", d |-> [status |-> [t |-> "str", s |-> "invalid", len |-> 7, isnum |-> FALSE, num |-> 0], confidence_score |-> [t |-> "float", n |-> 70], replacement_suggestion |-> [t |-> "str", s |-> "use x", len |-> 5, isnum |-> FALSE, num |-> 0]]]]

resp_repl_number ==
    [t |-> "text",
     text |-> <<"{", "\"", "s", "t", "a", "t", "u", "s", "\"", ":", "\"", "i", "n", "v", "a", "l", "i", "d", "\"", ",", "\"", "r", "e", "p", "l", "a", "c", "e", "m", "e", "n", "t", "_", "s", "u", "g", "g", "e", "s", "t", "i", "o", "n", "\"", ":", "3", "}">>,
     json |-> [t |-> "dict", d |-> [status |-> [t |-> "str", s |-> "invalid", len |-> 7, isnum |-> FALSE, num |-> 0], replacement_suggestion |-> [t |-> "int", n |-> 3]]]]

resp_repl_null_sources ==
    [t |-> "text",
     text |-> <<"{", "\"", "s", "t", "a", "t", "u", "s", "\"", ":", "\"", "i", "n", "v", "a", "l", "i", "d", "\"", ",", "\"", "r", "e", "p", "l", "a", "c", "e", "m", "e", "n", "t", "_", "s", "u", "g", "g", "e", "s", "t", "i", "o", "n", "\"", ":", "{", "\"", "p", "r", "o", "o", "f", "_", "s", "o", "u", "r", "c", "e", "s", "\"", ":", "n", "u", "l", "l", "}", "}">>,
     json |-> [t |-> "dict", d |-> [status |-> [t |-> "str", s |-> "invalid", len |-> 7, isnum |-> FALSE, num |-> 0], replacement_suggestion |-> [t |-> "dict", d |-> [proof_sources |-> [t |-> "null"]]]]]]

resp_repl_null ==
    [t |-> "text",
     text |-> <<"{", "\"", "s", "t", "a", "t", "u", "s", "\"", ":", "\"", "i", "n", "v", "a", "l", "i", "d", "\"", ",", "\"", "c", "o", "n", "f", "i", "d", "e", "n", "c", "e", "_", "s", "c", "o", "r", "e", "\"", ":", "0", ".", "6", ",", "\"", "r", "e", "p", "l", "a", "c", "e", "m", "e", "n", "t", "_", "s", "u", "g", "g", "e", "s", "t", "i", "o", "n", "\"", ":", "n", "u", "l", "l", "}">>,
     json |-> [t |-> "dict", d |-> [status |-> [t |-> "str", s |-> "invalid", len |-> 7, isnum |-> FALSE, num |-> 0], confidence_score |-> [t |-> "float", n |-> 60], replacement_suggestion |-> [t |-> "null"]]]]

resp_odd_fields ==
    [t |-> "text",
     text |-> <<"{", "\"", "s", "t", "a", "t", "u", "s", "\"", ":", "\"", "u", "n", "c", "e", "r", "t", "a", "i", "n", "\"", ",", "\"", "e", "x", "p", "l", "a", "n", "a", "t", "i", "o", "n", "\"", ":", "\"", "\"", ",", "\"", "r", "e", "c", "o", "m", "m", "e", "n", "d", "a", "t", "i", "o", "n", "s", "\"", ":", "n", "u", "l", "l", "}">>,
     json |-> [t |-> "dict", d |-> [status |-> [t |-> "str", s |-> "uncertain", len |-> 9, isnum |-> FALSE, num |-> 0], explanation |-> [t |-> "str", s |-> "", len |-> 0, isnum |-> FALSE, num |-> 0], recommendations |-> [t |-> "null"]]]]

resp_long ==
    [t |-> "text",
     text |-> w_valid \o [i \in 1..(explanation_limit - 4) |-> "x"],
     json |-> [t |-> "JSONDecodeError"]]

\* response.choices[0].message.content is None
resp_none == [t |-> "none"]

Responses ==
    <<resp_empty, resp_plain_valid, resp_plain_invalid, resp_plain_uncertain,
      resp_plain_unclear, resp_plain_none, resp_open_only, resp_close_only,
      resp_reversed, resp_nonjson, resp_two_objects, resp_ok_valid,
      resp_wrapped_invalid, resp_valid_with_replacement, resp_needs_review, resp_uncertain_mixed_idx,
      resp_valid_no_idx, resp_valid_bad_idx, resp_status_upper, resp_status_bogus,
      resp_status_null, resp_status_list, resp_empty_object, resp_conf_high,
      resp_conf_negative, resp_conf_numstr, resp_conf_word, resp_conf_null,
      resp_conf_true, resp_idx_number, resp_idx_string, resp_bogus_idx_number,
      resp_repl_string, resp_repl_number, resp_repl_null_sources, resp_repl_null,
      resp_odd_fields, resp_long, resp_none>>

\* the call raises, or returns one of the responses
ModelOutcomes ==
    {[t |-> "exception"]} \cup {[t |-> "response", i |-> i] : i \in DOMAIN Responses}

----------------------------------------------------------------------------
(* _parse_validation_response and _fallback_parse_response                 *)

VALID == "valid"
INVALID == "invalid"
UNCERTAIN == "uncertain"
NEEDS_REVIEW == "needs_review"
ValidationStatus == {VALID, INVALID, UNCERTAIN, NEEDS_REVIEW}

JSONDecodeError == [t |-> "JSONDecodeError"]
Raised(e) == [t |-> "raised", exc |-> e]
Parsed(r, path) == [t |-> "result", path |-> path, r |-> r]

\* json.loads(json_str)
json_loads(response, json_str) ==
    IF json_str = <<>> THEN JSONDecodeError ELSE response.json

\* the indices taken as 0-based
resolve_zero_based(v, proof_sources) ==
    LET keep == SelectSeq(IterItems(v),
                          LAMBDA x : /\ IsInstanceInt(x)
                                     /\ 0 <= IntValue(x)
                                     /\ IntValue(x) < Len(proof_sources))
    IN  [i \in 1..Len(keep) |-> proof_sources[IntValue(keep[i]) + 1]]

\* lines 659-661, 676-678: the 1-based indices that are ints and in range
resolve_sources(v, proof_sources) ==
    LET keep == SelectSeq(IterItems(v),
                          LAMBDA x : /\ IsInstanceInt(x)
                                     /\ 1 <= IntValue(x)
                                     /\ IntValue(x) <= Len(proof_sources))
    IN  [i \in 1..Len(keep) |-> proof_sources[IntValue(keep[i])]]

manual_review_parsing ==
    JList(<<JStr("Manual review recommended due to parsing issues", 47)>>)

\* the keyword scan with "valid" tested alone, before "invalid"
fallback_valid_first(claim, response, proof_sources) ==
    LET low == Lower(response.text)
        verdict ==
            IF Contains(w_valid, low)
            THEN [status |-> VALID, confidence |-> 80]
            ELSE IF Contains(w_uncertain, low) \/ Contains(w_unclear, low)
            THEN [status |-> UNCERTAIN, confidence |-> 30]
            ELSE [status |-> UNCERTAIN, confidence |-> 50]
    IN  [claim |-> claim,
         status |-> verdict.status,
         confidence_score |-> verdict.confidence,
         explanation |-> Text(IF Len(response.text) > explanation_limit
                              THEN Prefix(response.text, explanation_limit) \o w_dots
                              ELSE response.text),
         proof_sources |-> IF verdict.status = VALID /\ proof_sources # <<>>
                           THEN Prefix(proof_sources, 2) ELSE <<>>,
         replacement_suggestion |-> None,
         recommendations |-> manual_review_parsing]

\* the keyword scan with one confidence for each status
fallback_fixed_confidence(claim, response, proof_sources) ==
    LET low == Lower(response.text)
        verdict ==
            IF Contains(w_valid, low) /\ ~Contains(w_invalid, low)
            THEN [status |-> VALID, confidence |-> 80]
            ELSE IF Contains(w_invalid, low)
            THEN [status |-> INVALID, confidence |-> 70]
            ELSE [status |-> UNCERTAIN, confidence |-> 30]
    IN  [claim |-> claim,
         status |-> verdict.status,
         confidence_score |-> verdict.confidence,
         explanation |-> Text(IF Len(response.text) > explanation_limit
                              THEN Prefix(response.text, explanation_limit) \o w_dots
                              ELSE response.text),
         proof_sources |-> IF verdict.status = VALID /\ proof_sources # <<>>
                           THEN Prefix(proof_sources, 2) ELSE <<>>,
         replacement_suggestion |-> None,
         recommendations |-> manual_review_parsing]

\* lines 716-743
fallback_parse_response(claim, response, proof_sources) ==
    LET low == Lower(response.text)
        verdict ==
            IF Contains(w_valid, low) /\ ~Contains(w_invalid, low)
            THEN [status |-> VALID, confidence |-> 80]
            ELSE IF Contains(w_invalid, low)
            THEN [status |-> INVALID, confidence |-> 70]
            ELSE IF Contains(w_uncertain, low) \/ Contains(w_unclear, low)
            THEN [status |-> UNCERTAIN, confidence |-> 30]
            ELSE [status |-> UNCERTAIN, confidence |-> 50]
    IN  [claim |-> claim,
         status |-> verdict.status,
         confidence_score |-> verdict.confidence,
         explanation |-> Text(IF Len(response.text) > explanation_limit
                              THEN Prefix(response.text, explanation_limit) \o w_dots
                              ELSE response.text),
         proof_sources |-> IF verdict.status = VALID /\ proof_sources # <<>>
                           THEN Prefix(proof_sources, 2) ELSE <<>>,
         replacement_suggestion |-> None,
         recommendations |-> manual_review_parsing]

\* lines 656-661 without the default of lines 663-667
SourcesUsedAsListed(data, proof_sources) ==
    IF "proof_sources_used" \in DOMAIN data /\ Truthy(data["proof_sources_used"])
    THEN IF Iterable(data["proof_sources_used"])
         THEN [ok |-> TRUE,
               v |-> resolve_sources(data["proof_sources_used"], proof_sources)]
         ELSE [ok |-> FALSE, v |-> <<>>]
    ELSE [ok |-> TRUE, v |-> <<>>]

\* lines 656-667: proof_sources_used; TypeError when the value cannot be
\* iterated
SourcesUsed(data, proof_sources) ==
    LET listed ==
            IF "proof_sources_used" \in DOMAIN data /\ Truthy(data["proof_sources_used"])
            THEN IF Iterable(data["proof_sources_used"])
                 THEN [ok |-> TRUE,
                       v |-> resolve_sources(data["proof_sources_used"], proof_sources)]
                 ELSE [ok |-> FALSE, v |-> <<>>]
            ELSE [ok |-> TRUE, v |-> <<>>]
        status == Get(data, "status", None)
    IN  IF /\ listed.ok
           /\ status.t = "str" /\ status.s = "valid"
           /\ listed.v = <<>>
           /\ proof_sources # <<>>
        THEN [ok |-> TRUE, v |-> Prefix(proof_sources, 3)]
        ELSE listed

\* lines 669-685: replacement_suggestion; `raised` is "" or the exception
Replacement(claim, data, proof_sources) ==
    IF "replacement_suggestion" \in DOMAIN data /\ Truthy(data["replacement_suggestion"])
    THEN LET rd == data["replacement_suggestion"]
         IN  IF rd.t \in {"int", "float", "bool"}
             THEN [raised |-> "TypeError", v |-> None]
             ELSE IF rd.t # "dict"
             THEN [raised |-> "AttributeError", v |-> None]
             ELSE IF "proof_sources" \in DOMAIN rd.d /\ ~Iterable(rd.d["proof_sources"])
             THEN [raised |-> "TypeError", v |-> None]
             ELSE [raised |-> "",
                   v |-> [t |-> "some",
                          original_claim |-> claim,
                          suggested_replacement |->
                              Get(rd.d, "suggested_replacement", JStr("", 0)),
                          proof_sources |->
                              IF "proof_sources" \in DOMAIN rd.d
                              THEN resolve_sources(rd.d["proof_sources"], proof_sources)
                              ELSE <<>>,
                          explanation |-> Get(rd.d, "explanation", JStr("", 0))]]
    ELSE [raised |-> "", v |-> None]

\* line 689: ValidationStatus(data.get('status', 'uncertain'))
StatusOf(data) ==
    LET s == Get(data, "status", JStr("uncertain", 9))
    IN  IF s.t = "str" /\ s.s \in ValidationStatus
        THEN [raised |-> "", v |-> s.s]
        ELSE [raised |-> "ValueError", v |-> ""]

\* float(x) in hundredths
Float(c) ==
    CASE c.t = "float" -> c.n
      [] c.t = "int" -> c.n * 100
      [] c.t = "bool" -> IF c.b THEN 100 ELSE 0
      [] c.t = "str" -> c.num
      [] OTHER -> 0

\* line 690: float(data.get('confidence_score', 0.0))
ConfidenceOf(data) ==
    LET c == Get(data, "confidence_score", JFloat(0))
    IN  IF c.t \in {"float", "int", "bool"} THEN [raised |-> "", v |-> Float(c)]
        ELSE IF c.t = "str"
        THEN IF c.isnum THEN [raised |-> "", v |-> Float(c)]
             ELSE [raised |-> "ValueError", v |-> 0]
        ELSE [raised |-> "TypeError", v |-> 0]

\* lines 647-702
parse_validation_response(claim, response, proof_sources) ==
    IF response.t = "none" THEN Raised("AttributeError")
    ELSE
    LET json_start == Find(response.text, "{")
        json_end == RFind(response.text, "}") + 1
        fallback == Parsed(fallback_parse_response(claim, response, proof_sources),
                           "fallback")
    IN  IF json_start # -1 /\ json_end # -1
        THEN LET loaded == json_loads(response, Slice(response.text, json_start, json_end))
                 data == loaded.d
                 used == SourcesUsed(data, proof_sources)
                 repl == Replacement(claim, data, proof_sources)
                 status == StatusOf(data)
                 conf == ConfidenceOf(data)
             IN  IF loaded.t = "JSONDecodeError" THEN fallback
                 ELSE IF ~used.ok THEN Raised("TypeError")
                 ELSE IF repl.raised # "" THEN Raised(repl.raised)
                 ELSE IF status.raised # "" THEN fallback
                 ELSE IF conf.raised = "ValueError" THEN fallback
                 ELSE IF conf.raised # "" THEN Raised(conf.raised)
                 ELSE Parsed([claim |-> claim,
                              status |-> status.v,
                              confidence_score |-> conf.v,
                              explanation |-> Get(data, "explanation",
                                                  JStr("No explanation provided", 23)),
                              proof_sources |-> used.v,
                              replacement_suggestion |-> repl.v,
                              recommendations |-> Get(data, "recommendations", JList(<<>>))],
                             "primary")
        ELSE fallback

\* lines 418-426: the result built when the model call or the parse raised
ErrorResult(claim) ==
    [claim |-> claim,
     status |-> UNCERTAIN,
     confidence_score |-> 0,
     explanation |-> JStr("Validation failed due to error", 30),
     proof_sources |-> <<>>,
     replacement_suggestion |-> None,
     recommendations |-> JList(<<JStr("Manual review required due to validation error", 46)>>)]

\* the same with the model call outside the try
CompleteValidationUncaught(claim, outcome, proof_sources) ==
    IF outcome.t = "exception" THEN Raised("Exception")
    ELSE LET p == parse_validation_response(claim, Responses[outcome.i], proof_sources)
         IN  IF p.t = "raised" THEN Parsed(ErrorResult(claim), "error") ELSE p

\* lines 401-426: the model call, the parse of its response, and the
\* except Exception around both
CompleteValidation(claim, outcome, proof_sources) ==
    IF outcome.t = "exception" THEN Parsed(ErrorResult(claim), "error")
    ELSE LET p == parse_validation_response(claim, Responses[outcome.i], proof_sources)
         IN  IF p.t = "raised" THEN Parsed(ErrorResult(claim), "error") ELSE p

----------------------------------------------------------------------------
(* The search provider (requests.get on serpapi.com/search, line 487)      *)

t_title == <<"t">>
url_gov == <<"a", ".", "g", "o", "v">>
url_cnn == <<"c", "n", "n", ".", "c", "o", "m">>
url_blog == <<"b", ".", "i", "o">>
url_cnn_gov == <<"c", "n", "n", ".", "c", "o", "m", "/", "g", "o", "v">>
url_upper_edu == <<"M", "I", "T", ".", "E", "D", "U">>

r_gov == [title |-> t_title, link |-> url_gov]
r_cnn == [title |-> t_title, link |-> url_cnn]
r_blog == [title |-> t_title, link |-> url_blog]
r_cnn_gov == [title |-> kw_text, link |-> url_cnn_gov]
r_upper_edu == [title |-> t_title, link |-> url_upper_edu]
r_no_link == [title |-> d_gov]

\* Bodies response.json() can return for a 200 response
SearchBodies ==
    {[search_metadata |-> "ok"],
     [organic_results |-> <<>>],
     [organic_results |-> <<r_blog, r_cnn, r_gov>>],
     [organic_results |-> <<r_gov, r_blog, r_gov>>],
     [organic_results |-> <<r_no_link, r_cnn_gov, r_upper_edu>>]}

\* What requests.get / raise_for_status / response.json() can do:
\* an exception (timeout, connection error), a status code, a body.
SearchOutcomes ==
    {[kind |-> "exception"], [kind |-> "status", code |-> 429],
     [kind |-> "status", code |-> 500], [kind |-> "badjson"]}
    \cup {[kind |-> "ok", body |-> b] : b \in SearchBodies}

----------------------------------------------------------------------------
(* Process-wide state and the validator workers                            *)

\* a pool with two threads more, one for each of the five claims
one_thread_per_claim == 3 + 2

\* line 219: ThreadPoolExecutor(max_workers=3)
max_workers == 3
Workers == 1..max_workers

\* time.time() + 300 (line 135), in units of 0.1 s
BACKOFF == 300 * 10
\* config.SEARCH_DELAY = 0.1 s, in units of 0.1 s
SEARCH_DELAY == 1

MaxTicks == 3
MaxCalls == 4
\* threads searching concurrently in SpecConc, and the calls they make
SearchThreads == 2
ConcCalls == 3
TickSteps == {1, BACKOFF}

StartTime == 2

VARIABLES
    now,                    \* time.time()
    ticks,                  \* number of clock advances so far
    calls,                  \* number of search calls started so far
    last_search_time,       \* ValidationAgent._last_search_time
    rate_limited,           \* ValidationAgent._rate_limited
    rate_limit_reset_time,  \* ValidationAgent._rate_limit_reset_time
    serpapi_key,            \* self.serpapi_key is set
    pc,                     \* where each thread is inside _search_for_proof_sources
    claim,                  \* the claim each thread searches for
    current_time,           \* _check_rate_limit's local current_time
    issued,                 \* "no", or the rate-limit state at the moment the call sent its request
    window,                 \* the call's start against limited_at: "none", "within", "after"
    limited_at,             \* clock reading taken for the latest 429 (-1: none yet)
    last                    \* the call that returned last: its claim, window, issued, return value

rlVars == <<last_search_time, rate_limited, rate_limit_reset_time>>
callVars == <<pc, claim, current_time, issued, window>>
searchVars == <<serpapi_key, callVars, limited_at, last>>

\* BACKOFF state: rate limited and the clock has not passed the reset time
InBackoff == rate_limited /\ ~(now > rate_limit_reset_time)

----------------------------------------------------------------------------
(* _search_for_proof_sources with _check_rate_limit and _handle_rate_limit *)
(* inlined, one step per access to the process-wide state: the class       *)
(* variables are read and written without a lock, so a thread switch can   *)
(* fall between any two of them.                                           *)

\* line 112: current_time > ValidationAgent._rate_limit_reset_time
reset_passed_at_deadline(ct, reset) == ct >= reset

reset_passed(ct, reset) == ct > reset

\* line 124: time_since_last_search < search_delay
too_soon(ct, last_time) == ct - last_time < SEARCH_DELAY

\* the call's start against the latest 429
WindowAt(t) ==
    IF limited_at = -1 THEN "none"
    ELSE IF t <= limited_at + BACKOFF THEN "within" ELSE "after"

NoCall == [claim |-> <<>>, window |-> "none", issued |-> "no", ret |-> <<>>]

\* the call returns `value` to its caller; its locals are gone
Return(w, c, win, iss, value) ==
    /\ pc' = [pc EXCEPT ![w] = "idle"]
    /\ claim' = [claim EXCEPT ![w] = <<>>]
    /\ current_time' = [current_time EXCEPT ![w] = 0]
    /\ issued' = [issued EXCEPT ![w] = "no"]
    /\ window' = [window EXCEPT ![w] = "none"]
    /\ last' = [claim |-> c, window |-> win, issued |-> iss, ret |-> value]

Goto(w, label) ==
    /\ pc' = [pc EXCEPT ![w] = label]
    /\ UNCHANGED <<claim, current_time, issued, window, last>>

\* lines 464-474 and 108: the key and skip-list tests, then _check_rate_limit
\* reads the clock
BeginSearch(w, c) ==
    /\ IF ~serpapi_key \/ should_skip_web_search(c)
       THEN Return(w, c, WindowAt(now), "no", <<>>)
       ELSE /\ pc' = [pc EXCEPT ![w] = "crl_limited"]
            /\ claim' = [claim EXCEPT ![w] = c]
            /\ current_time' = [current_time EXCEPT ![w] = now]
            /\ window' = [window EXCEPT ![w] = WindowAt(now)]
            /\ UNCHANGED <<issued, last>>
    /\ calls' = calls + 1
    /\ UNCHANGED <<now, ticks, rlVars, serpapi_key, limited_at>>

\* line 111: if ValidationAgent._rate_limited
CrlLimited(w) ==
    /\ pc[w] = "crl_limited"
    /\ Goto(w, IF rate_limited THEN "crl_reset" ELSE "crl_last")
    /\ UNCHANGED <<now, ticks, calls, rlVars, serpapi_key, limited_at>>

\* lines 112-118: the reset time is read; still limited returns False and the
\* search returns []
CrlReset(w) ==
    /\ pc[w] = "crl_reset"
    /\ IF reset_passed(current_time[w], rate_limit_reset_time)
       THEN Goto(w, "crl_clear")
       ELSE Return(w, claim[w], window[w], issued[w], <<>>)
    /\ UNCHANGED <<now, ticks, calls, rlVars, serpapi_key, limited_at>>

\* line 114: ValidationAgent._rate_limited = False
CrlClear(w) ==
    /\ pc[w] = "crl_clear"
    /\ rate_limited' = FALSE
    /\ Goto(w, "crl_last")
    /\ UNCHANGED <<now, ticks, calls, last_search_time, rate_limit_reset_time,
                   serpapi_key, limited_at>>

\* lines 120-127: too soon after the last search still returns True
CrlLast(w) ==
    /\ pc[w] = "crl_last"
    /\ Goto(w, IF too_soon(current_time[w], last_search_time)
               THEN "request" ELSE "crl_setlast")
    /\ UNCHANGED <<now, ticks, calls, rlVars, serpapi_key, limited_at>>

\* line 129: ValidationAgent._last_search_time = current_time
CrlSetLast(w) ==
    /\ pc[w] = "crl_setlast"
    /\ last_search_time' = current_time[w]
    /\ Goto(w, "request")
    /\ UNCHANGED <<now, ticks, calls, rate_limited, rate_limit_reset_time,
                   serpapi_key, limited_at>>

\* line 487: requests.get sends the request
Request(w) ==
    /\ pc[w] = "request"
    /\ pc' = [pc EXCEPT ![w] = "await"]
    /\ issued' = [issued EXCEPT ![w] = IF InBackoff THEN "backoff" ELSE "normal"]
    /\ UNCHANGED <<now, ticks, calls, rlVars, serpapi_key, claim, current_time,
                   window, limited_at, last>>

\* every HTTP error status handled as the 429 is
RespondAnyStatusLimits(w, o) ==
    /\ pc[w] = "await"
    /\ IF o.kind = "status"
       THEN Goto(w, "hrl_flag")
       ELSE IF o.kind = "ok"
       THEN Return(w, claim[w], window[w], issued[w], SourcesFromBody(o.body))
       ELSE Return(w, claim[w], window[w], issued[w], <<>>)
    /\ UNCHANGED <<now, ticks, calls, rlVars, serpapi_key, limited_at>>

\* lines 487-515: the response (or the exception) arrives
Respond(w, o) ==
    /\ pc[w] = "await"
    /\ IF o.kind = "status" /\ o.code = 429
       THEN Goto(w, "hrl_flag")
       ELSE IF o.kind = "ok"
       THEN Return(w, claim[w], window[w], issued[w], SourcesFromBody(o.body))
       ELSE Return(w, claim[w], window[w], issued[w], <<>>)
    /\ UNCHANGED <<now, ticks, calls, rlVars, serpapi_key, limited_at>>

\* line 134: ValidationAgent._rate_limited = True
HrlFlag(w) ==
    /\ pc[w] = "hrl_flag"
    /\ rate_limited' = TRUE
    /\ Goto(w, "hrl_reset")
    /\ UNCHANGED <<now, ticks, calls, last_search_time, rate_limit_reset_time,
                   serpapi_key, limited_at>>

\* lines 135, 493: the reset time is set from a fresh clock reading, and the
\* search returns []
HrlReset(w) ==
    /\ pc[w] = "hrl_reset"
    /\ rate_limit_reset_time' = now + BACKOFF
    /\ limited_at' = now
    /\ Return(w, claim[w], window[w], issued[w], <<>>)
    /\ UNCHANGED <<now, ticks, calls, last_search_time, rate_limited, serpapi_key>>

\* the clock advances
Tick(d) ==
    /\ ticks < MaxTicks
    /\ now' = now + d
    /\ ticks' = ticks + 1
    /\ UNCHANGED <<calls, rlVars, searchVars>>

SearchStep(w) ==
    \/ CrlLimited(w)
    \/ CrlReset(w)
    \/ CrlClear(w)
    \/ CrlLast(w)
    \/ CrlSetLast(w)
    \/ Request(w)
    \/ \E o \in SearchOutcomes : Respond(w, o)
    \/ HrlFlag(w)
    \/ HrlReset(w)

\* a caller invokes _search_for_proof_sources
SearchCall(w, c) ==
    /\ calls < ConcCalls
    /\ pc[w] = "idle"
    /\ BeginSearch(w, c)

\* searches issued one at a time: a call starts once no other is in progress
SearchCallAlone(w, c) ==
    /\ calls < MaxCalls
    /\ \A v \in Workers : pc[v] = "idle"
    /\ BeginSearch(w, c)

InitSearch ==
    /\ now = StartTime
    /\ ticks = 0
    /\ calls = 0
    /\ last_search_time = 0
    /\ rate_limited = FALSE
    /\ rate_limit_reset_time = 0
    /\ serpapi_key \in BOOLEAN
    /\ pc = [w \in Workers |-> "idle"]
    /\ claim = [w \in Workers |-> <<>>]
    /\ current_time = [w \in Workers |-> 0]
    /\ issued = [w \in Workers |-> "no"]
    /\ window = [w \in Workers |-> "none"]
    /\ limited_at = -1
    /\ last = NoCall

\* before any search call, and in the specifications that make none
IdleSearch ==
    /\ InitSearch
    /\ serpapi_key = TRUE

allSearchVars == <<now, ticks, calls, rlVars, searchVars>>

----------------------------------------------------------------------------
(* _validate_single_claim from the model call on (lines 401-426), for one  *)
(* claim and the proof sources its search returned                         *)

ps_gov == MakeProofSource(r_gov)
ps_cnn == MakeProofSource(r_cnn)
ps_blog == MakeProofSource(r_blog)
ps_edu == MakeProofSource(r_upper_edu)

SourceLists == <<<<>>, <<ps_gov>>, <<ps_gov, ps_cnn>>, <<ps_gov, ps_cnn, ps_blog, ps_edu>>>>

VARIABLES
    vclaim,     \* the claim being validated
    vsources,   \* proof_sources
    voutcome,   \* what the chat completion call did
    vresult     \* the ValidationResult returned, with the path that built it

validateVars == <<vclaim, vsources, voutcome, vresult>>

InitValidate ==
    /\ vclaim \in ClaimTexts
    /\ \E i \in DOMAIN SourceLists : vsources = SourceLists[i]
    /\ voutcome = None
    /\ vresult = [t |-> "pending"]

IdleValidate ==
    /\ vclaim = <<>>
    /\ vsources = <<>>
    /\ voutcome = None
    /\ vresult = [t |-> "pending"]

ValidateClaim(o) ==
    /\ vresult.t = "pending"
    /\ voutcome' = o
    /\ vresult' = CompleteValidation(vclaim, o, vsources)
    /\ UNCHANGED <<vclaim, vsources>>

NextValidate == \E o \in ModelOutcomes : ValidateClaim(o)
----------------------------------------------------------------------------
(* _generate_validation_report and _generate_summary (lines 745-806).      *)
(* Confidence scores are in hundredths; the mean is kept as the exact      *)
(* fraction num/den of hundredths, so 0.71 is any fraction equal to 71/1.  *)

RECURSIVE CountStatus(_, _)
\* lines 756-758: sum(1 for r in results if r.status == status)
CountStatus(results, status) ==
    IF results = <<>> THEN 0
    ELSE (IF Head(results).status = status THEN 1 ELSE 0)
         + CountStatus(Tail(results), status)

RECURSIVE SumConfidence(_)
\* line 760: sum(r.confidence_score for r in results)
SumConfidence(results) ==
    IF results = <<>> THEN 0
    ELSE Head(results).confidence_score + SumConfidence(Tail(results))

\* the mean taken over the tallied results only
mean_over_counted(results) ==
    LET counted == CountStatus(results, VALID) + CountStatus(results, INVALID)
                   + CountStatus(results, UNCERTAIN)
    IN  IF counted > 0
        THEN [num |-> SumConfidence(results), den |-> counted]
        ELSE [num |-> 0, den |-> 1]

\* line 760: the mean, 0.0 for an empty list
overall_confidence(results) ==
    IF Len(results) > 0
    THEN [num |-> SumConfidence(results), den |-> Len(results)]
    ELSE [num |-> 0, den |-> 1]

\* lines 775-806: the lines of the summary; the confidence line carries the
\* mean itself (its rendering to two decimals is not modelled)
generate_summary(results, valid, invalid, uncertain, confidence) ==
    [validated |-> valid,
     total |-> Len(results),
     invalid |-> invalid,
     uncertain |-> uncertain,
     confidence |-> confidence,
     require_correction |-> invalid > 0,
     need_manual_review |-> uncertain > 0,
     low_confidence |-> confidence.num < 70 * confidence.den]

\* the report with needs_review folded into the uncertain tally
generate_report_folded(results) ==
    LET valid_claims == CountStatus(results, VALID)
        invalid_claims == CountStatus(results, INVALID)
        uncertain_claims == CountStatus(results, UNCERTAIN)
                            + CountStatus(results, NEEDS_REVIEW)
        confidence == overall_confidence(results)
    IN  [t |-> "report",
         total_claims |-> Len(results),
         valid_claims |-> valid_claims,
         invalid_claims |-> invalid_claims,
         uncertain_claims |-> uncertain_claims,
         overall_confidence |-> confidence,
         results |-> results,
         summary |-> generate_summary(results, valid_claims, invalid_claims,
                                      uncertain_claims, confidence)]

\* lines 745-773
generate_validation_report(results) ==
    LET valid_claims == CountStatus(results, VALID)
        invalid_claims == CountStatus(results, INVALID)
        uncertain_claims == CountStatus(results, UNCERTAIN)
        confidence == overall_confidence(results)
    IN  [t |-> "report",
         total_claims |-> Len(results),
         valid_claims |-> valid_claims,
         invalid_claims |-> invalid_claims,
         uncertain_claims |-> uncertain_claims,
         overall_confidence |-> confidence,
         results |-> results,
         summary |-> generate_summary(results, valid_claims, invalid_claims,
                                      uncertain_claims, confidence)]

\* a ValidationResult (lines 46-56) with the two fields the report reads
SampleResult(status, confidence) ==
    [claim |-> claim_gdp,
     status |-> status,
     confidence_score |-> confidence,
     explanation |-> JStr("checked", 7),
     proof_sources |-> <<>>,
     replacement_suggestion |-> None,
     recommendations |-> JList(<<>>)]

SampleResults ==
    {SampleResult(VALID, 90), SampleResult(VALID, 80), SampleResult(INVALID, 60),
     SampleResult(UNCERTAIN, 30), SampleResult(VALID, 95),
     SampleResult(NEEDS_REVIEW, 50), SampleResult(UNCERTAIN, 0)}

MaxResults == 5

VARIABLES report_in, report

reportVars == <<report_in, report>>

IdleReport ==
    /\ report_in = <<>>
    /\ report = None

\* _generate_validation_report([])
ReportEmpty ==
    /\ report = None
    /\ report' = generate_validation_report(report_in)
    /\ UNCHANGED report_in

\* _generate_validation_report on the list so far and one more result
ReportOn(r) ==
    /\ Len(report_in) < MaxResults
    /\ report_in' = Append(report_in, r)
    /\ report' = generate_validation_report(report_in')

----------------------------------------------------------------------------
(* _extract_factual_statements and the class-level fact cache              *)
(* (lines 303-379).  hash(content[:500]) is modelled by the prefix it is   *)
(* computed from: equal prefixes give equal keys, different prefixes are   *)
(* taken to give different keys.                                            *)

cache_prefix == 500
max_content_length == 3000

Whitespace == {" ", "\n", "\t"}

RECURSIVE LStrip(_)
LStrip(s) == IF s # <<>> /\ Head(s) \in Whitespace THEN LStrip(Tail(s)) ELSE s

RECURSIVE RStrip(_)
RStrip(s) ==
    IF s # <<>> /\ s[Len(s)] \in Whitespace
    THEN RStrip(SubSeq(s, 1, Len(s) - 1)) ELSE s

\* str.strip()
Strip(s) == RStrip(LStrip(s))

RECURSIVE Split(_, _)
\* str.split(sep) for a one-character separator
Split(s, sep) ==
    LET i == Find(s, sep)
    IN  IF i = -1 THEN <<s>>
        ELSE <<Slice(s, 0, i)>> \o Split(SubSeq(s, i + 2, Len(s)), sep)

RECURSIVE StrippedNonEmpty(_)
\* line 366: [stmt.strip() for stmt in statements if stmt.strip()]
StrippedNonEmpty(statements) ==
    IF statements = <<>> THEN <<>>
    ELSE (IF Strip(Head(statements)) # <<>> THEN <<Strip(Head(statements))>> ELSE <<>>)
         \o StrippedNonEmpty(Tail(statements))

\* lines 320-322: the text put into the prompt
Truncated(content) ==
    IF Len(content) > max_content_length
    THEN Prefix(content, max_content_length) \o w_dots
    ELSE content

\* the whole text as the key
cache_key_whole(content) == content

\* line 314
cache_key(content) == Prefix(content, cache_prefix)

nl == <<"\n">>

\* what the extraction model call does: raise, or answer with a content
xr_blank == <<" ", " ">> \o nl \o <<"\t">> \o nl
xr_one == <<" ">> \o claim_gdp \o <<" ">> \o nl
xr_two == claim_upper_slide \o nl \o nl \o <<" ">> \o claim_this_presentation
xr_other == claim_context
xr_six ==
    claim_gdp \o nl \o claim_gdp \o nl \o claim_gdp \o nl \o claim_gdp
    \o nl \o claim_gdp \o nl \o claim_context

ExtractOutcomes ==
    {[t |-> "exception"], [t |-> "none"],
     Text(<<>>), Text(xr_blank), Text(xr_one), Text(xr_two), Text(xr_other),
     Text(xr_six)}

\* lines 313-379 on the cache `cache`, when a model call, if one is made,
\* ends as `outcome`: the list returned, the cache afterwards, and whether
\* the model was called and with which text
extract_without_cache(content, cache, outcome) ==
    IF outcome.t = "text"
    THEN LET result == StrippedNonEmpty(Split(Strip(outcome.chars), "\n"))
         IN  [ret |-> result, cache |-> cache, invoked |-> TRUE,
              prompted |-> Truncated(content)]
    ELSE [ret |-> <<>>, cache |-> cache, invoked |-> TRUE,
          prompted |-> Truncated(content)]

\* the same with the empty list cached when the model call fails
extract_caching_failures(content, cache, outcome) ==
    LET content_hash == cache_key(content)
        result == IF outcome.t = "text"
                  THEN StrippedNonEmpty(Split(Strip(outcome.chars), "\n"))
                  ELSE <<>>
    IN  IF content_hash \in DOMAIN cache
        THEN [ret |-> cache[content_hash], cache |-> cache, invoked |-> FALSE,
              prompted |-> <<>>]
        ELSE [ret |-> result,
              cache |-> [k \in DOMAIN cache \cup {content_hash} |->
                            IF k = content_hash THEN result ELSE cache[k]],
              invoked |-> TRUE,
              prompted |-> Truncated(content)]

extract_factual_statements(content, cache, outcome) ==
    LET content_hash == cache_key(content)
    IN  IF content_hash \in DOMAIN cache
        THEN [ret |-> cache[content_hash], cache |-> cache, invoked |-> FALSE,
              prompted |-> <<>>]
        ELSE IF outcome.t = "text"
        THEN LET result == StrippedNonEmpty(Split(Strip(outcome.chars), "\n"))
             IN  [ret |-> result,
                  cache |-> [k \in DOMAIN cache \cup {content_hash} |->
                                IF k = content_hash THEN result ELSE cache[k]],
                  invoked |-> TRUE,
                  prompted |-> Truncated(content)]
        ELSE [ret |-> <<>>, cache |-> cache, invoked |-> TRUE,
              prompted |-> Truncated(content)]

doc_short == <<"G", "D", "P">>
doc_500 == [i \in 1..cache_prefix |-> "x"]
doc_a == doc_500 \o <<"a">>
doc_b == doc_500 \o <<"b">>

Documents == {doc_short, doc_500, doc_a, doc_b}

MaxExtracts == 2

VARIABLES fact_cache, extractions

extractVars == <<fact_cache, extractions>>

EmptyCache == [k \in {} |-> <<>>]

IdleExtract ==
    /\ fact_cache = EmptyCache
    /\ extractions = <<>>

\* one call of _extract_factual_statements
Extract(content, outcome) ==
    /\ Len(extractions) < MaxExtracts
    /\ LET x == extract_factual_statements(content, fact_cache, outcome)
       IN  /\ fact_cache' = x.cache
           /\ extractions' = Append(extractions,
                                    [content |-> content, ret |-> x.ret,
                                     invoked |-> x.invoked, prompted |-> x.prompted,
                                     failed |-> x.invoked /\ outcome.t # "text"])

----------------------------------------------------------------------------
(* The successful end of _search_for_proof_sources (lines 496-511) on      *)
(* every body the provider can answer with                                  *)

OrganicResults == {r_gov, r_cnn, r_blog, r_cnn_gov, r_upper_edu, r_no_link}

MaxOrganic == 3

\* response.json(): with organic_results of up to MaxOrganic entries, or
\* without the key
ProviderBodies ==
    {[search_metadata |-> "ok"]}
    \cup {[organic_results |-> s] :
            s \in UNION {[1..n -> OrganicResults] : n \in 0..MaxOrganic}}

VARIABLES provider_body, returned_sources

sourcesVars == <<provider_body, returned_sources>>

IdleSources ==
    /\ provider_body = None
    /\ returned_sources = <<>>

\* lines 496-511: the provider answered 200 with `body`
SearchReturns(body) ==
    /\ provider_body = None
    /\ provider_body' = body
    /\ returned_sources' = SourcesFromBody(body)

-----------------------------------------------------------------------------
(* ValidationAgent.__init__, initialize_services and /create-slides        *)

\* os.getenv gives None for a variable that is not set
Unset == "unset"
Blank == ""
ArgKeys == {Unset, Blank, "sk-arg"}
ConfigKeys == {Unset, Blank, "sk-config"}
EnvKeys == {Unset, Blank, "sk-env"}

TruthyKey(k) == k \notin {Unset, Blank}

\* a or b or c
Or3(a, b, c) == IF TruthyKey(a) THEN a ELSE IF TruthyKey(b) THEN b ELSE c

\* the constructor without the test of lines 91-92
agent_init_unchecked(arg_key, arg_serpapi, k) ==
    [ret |-> [t |-> "agent",
              api_key |-> Or3(arg_key, k.config_openai, k.env_openai),
              serpapi_key |-> Or3(arg_serpapi, k.config_serpapi, k.env_serpapi)],
     clients |-> 1,
     warned |-> ~TruthyKey(Or3(arg_serpapi, k.config_serpapi, k.env_serpapi))]

\* lines 82-99: `clients` counts the calls of openai.OpenAI, `warned` is the
\* warning of lines 95-96
agent_init(arg_key, arg_serpapi, k) ==
    LET key == Or3(arg_key, k.config_openai, k.env_openai)
        serp == Or3(arg_serpapi, k.config_serpapi, k.env_serpapi)
    IN  IF ~TruthyKey(key)
        THEN [ret |-> Raised("ValueError"), clients |-> 0, warned |-> FALSE]
        ELSE [ret |-> [t |-> "agent", api_key |-> key, serpapi_key |-> serp],
              clients |-> 1,
              warned |-> ~TruthyKey(serp)]

\* analyzer.py lines 54-67
analyzer_init(k) ==
    IF ~TruthyKey(Or3(Unset, Unset, k.env_openai))
    THEN Raised("ValueError")
    ELSE [t |-> "analyzer"]

\* an uploaded file: its type is not supported, the deck cannot be built
\* from it, or it goes through
Uploads == {"unsupported", "deck_fails", "ok"}

\* validate_claims returns a report or raises
ValidationOutcomes == {"report", "raises"}

MaxRequests == 2

VARIABLES keys, service, analyzer, validation_agent, startup_log, constructed,
          requests, response, validations_run

serviceVars ==
    <<keys, service, analyzer, validation_agent, startup_log, constructed,
      requests, response, validations_run>>

\* what config.py and os.getenv hold
KeySettings ==
    [config_openai : ConfigKeys, env_openai : EnvKeys,
     config_serpapi : ConfigKeys, env_serpapi : EnvKeys]

AllKeysSet ==
    [config_openai |-> "sk-config", env_openai |-> "sk-env",
     config_serpapi |-> "sk-config", env_serpapi |-> "sk-env"]

\* main.py lines 41-42, before the startup event
ServiceAt(k) ==
    /\ keys = k
    /\ service = "boot"
    /\ analyzer = None
    /\ validation_agent = None
    /\ startup_log = [constructions |-> 0, clients |-> 0]
    /\ constructed = None
    /\ requests = 0
    /\ response = None
    /\ validations_run = 0

IdleService == ServiceAt(AllKeysSet)

\* main.py lines 56-78: initialize_services, run once by the startup event
Startup ==
    /\ service = "boot"
    /\ LET a == analyzer_init(keys)
           v == agent_init(Unset, Unset, keys)
       IN  /\ analyzer' = IF a.t = "raised" THEN None ELSE a
           /\ validation_agent' = IF v.ret.t = "raised" THEN None ELSE v.ret
           /\ startup_log' = [constructions |-> startup_log.constructions + 1,
                              clients |-> startup_log.clients + v.clients]
    /\ service' = "up"
    /\ UNCHANGED <<keys, constructed, requests, response, validations_run>>

\* ValidationAgent(api_key, serpapi_key), called by other code
Construct(arg_key, arg_serpapi) ==
    /\ constructed = None
    /\ LET v == agent_init(arg_key, arg_serpapi, keys)
       IN  constructed' = [api_key |-> arg_key, serpapi_key |-> arg_serpapi,
                           ret |-> v.ret, clients |-> v.clients,
                           warned |-> v.warned]
    /\ UNCHANGED <<keys, service, analyzer, validation_agent, startup_log,
                   requests, response, validations_run>>

HTTPError(status, detail) == [status |-> status, detail |-> detail]

\* main.py lines 92-254
CreateSlides(upload, outcome) ==
    /\ service = "up"
    /\ requests < MaxRequests
    /\ requests' = requests + 1
    /\ IF analyzer = None
       THEN /\ response' = HTTPError(500, "Analyzer not available")
            /\ UNCHANGED validations_run
       ELSE IF validation_agent = None
       THEN /\ response' = HTTPError(500, "Validation agent not available")
            /\ UNCHANGED validations_run
       ELSE IF upload # "ok"
       THEN /\ response' = HTTPError(500, "Error processing document")
            /\ UNCHANGED validations_run
       ELSE /\ validations_run' = validations_run + 1
            /\ response' = [status |-> 200,
                            detail |-> IF outcome = "report"
                                       THEN "validated"
                                       ELSE "Validation failed"]
    /\ UNCHANGED <<keys, service, analyzer, validation_agent, startup_log,
                   constructed>>

----------------------------------------------------------------------------
(* validate_claims (lines 138-159): _extract_claims_from_raw_text          *)
(* (161-200), _validate_claims_parallel (202-246) on a pool of             *)
(* max_workers threads, _generate_validation_report.                        *)
(* analyzed_data is a dict with optional keys; extracted_data is the list  *)
(* of its items in dict order, each value tagged with its Python type and  *)
(* carrying str(value).  A validation takes two steps here, up to the      *)
(* rate-limit test and from the search request on, so a request can still  *)
(* follow another worker's 429; the finer steps of one search are those of *)
(* SearchStep.  The clock stands still during one validate_claims call.    *)

max_claims == 5

Item(key, type, str) == [key |-> key, type |-> type, str |-> str]

k_revenue == <<"r", "e", "v">>
k_count == <<"n">>
k_name == <<"c", "o">>
k_tags == <<"t", "a", "g", "s">>
k_public == <<"p", "u", "b">>
k_when == <<"w", "h", "e", "n">>
k_growth == <<"g">>

s_million == <<"1", "0", "0", "0", "0", "0", "0">>
s_hundred == <<"1", "0", "0">>
s_true == <<"T", "r", "u", "e">>
s_half == <<"0", ".", "5">>

data_company == <<Item(k_revenue, "int", s_million), Item(k_count, "int", s_hundred)>>
\* a list is skipped by the fallback; a datetime is skipped too and is not
\* JSON serializable
data_mixed ==
    <<Item(k_tags, "list", <<>>), Item(k_public, "bool", s_true),
      Item(k_when, "datetime", <<>>), Item(k_name, "str", kw_text)>>
data_six ==
    <<Item(k_revenue, "int", s_hundred), Item(k_count, "int", s_hundred),
      Item(k_growth, "float", s_half), Item(k_name, "str", kw_text),
      Item(k_public, "bool", s_true), Item(k_tags, "int", s_hundred)>>

Analyzed(has_text, text, has_data, data, statistics) ==
    [has_text |-> has_text, extracted_text |-> text,
     has_data |-> has_data, extracted_data |-> data,
     statistics |-> statistics]

\* the shapes of analyzed_data: empty, the one main.py builds (text only),
\* text with legacy data and statistics that json.dumps rejects, legacy data
\* only
AnalyzedInputs ==
    {Analyzed(FALSE, <<>>, FALSE, <<>>, "absent"),
     Analyzed(TRUE, doc_short, FALSE, <<>>, "absent"),
     Analyzed(TRUE, doc_short, TRUE, data_company, "object"),
     Analyzed(FALSE, <<>>, TRUE, data_company, "json"),
     Analyzed(FALSE, <<>>, TRUE, data_mixed, "absent"),
     Analyzed(FALSE, <<>>, TRUE, data_six, "object")}

JsonSerializable(type) == type \in {"int", "float", "str", "bool", "list", "null"}

RECURSIVE LegacyClaims(_, _)
\* lines 192-198: f"{key}: {value}" for the int, float and str values (a
\* bool is an int), until max_claims claims are collected
LegacyClaims(items, acc) ==
    IF items = <<>> \/ Len(acc) >= max_claims THEN acc
    ELSE LegacyClaims(Tail(items),
                      IF Head(items).type \in {"int", "float", "str", "bool"}
                      THEN Append(acc, Head(items).key \o <<":", " ">> \o Head(items).str)
                      ELSE acc)

\* lines 161-200
extract_claims_unlimited(data, cache, outcome) ==
    LET x == IF data.has_text
             THEN extract_factual_statements(data.extracted_text, cache, outcome)
             ELSE [ret |-> <<>>, cache |-> cache, invoked |-> FALSE, prompted |-> <<>>]
    IN  [claims |-> IF x.ret = <<>> /\ data.has_data
                    THEN LegacyClaims(data.extracted_data, <<>>)
                    ELSE x.ret,
         cache |-> x.cache,
         invoked |-> x.invoked]

extract_claims_from_raw_text(data, cache, outcome) ==
    LET x == IF data.has_text
             THEN extract_factual_statements(data.extracted_text, cache, outcome)
             ELSE [ret |-> <<>>, cache |-> cache, invoked |-> FALSE, prompted |-> <<>>]
        limited_claims == Prefix(x.ret, max_claims)
    IN  [claims |-> IF limited_claims = <<>> /\ data.has_data
                    THEN LegacyClaims(data.extracted_data, <<>>)
                    ELSE limited_claims,
         cache |-> x.cache,
         invoked |-> x.invoked]

\* lines 428-453: json.dumps raises TypeError on a value it cannot serialize
context_raises(data) ==
    \/ data.has_data /\ \E i \in DOMAIN data.extracted_data :
                            ~JsonSerializable(data.extracted_data[i].type)
    \/ data.statistics = "object"

ResponseIndex(r) == CHOOSE i \in DOMAIN Responses : Responses[i] = r

\* the outcomes of the external calls a validation makes
PipeModelOutcomes ==
    {[t |-> "exception"]}
    \cup {[t |-> "response", i |-> ResponseIndex(r)] :
            r \in {resp_ok_valid, resp_needs_review}}

PipeSearchOutcomes ==
    {[kind |-> "exception"], [kind |-> "status", code |-> 429],
     [kind |-> "ok", body |-> [organic_results |-> <<r_blog, r_cnn, r_gov>>]]}

MaxAnswers == 1

VARIABLES analyzed_data, ppc, claims, futures, validation_results, extract_call,
          answered

pipeVars ==
    <<analyzed_data, ppc, claims, futures, validation_results, extract_call, answered>>

\* what the pipeline leaves alone: one search's locals and the clock
searchLocals == <<now, ticks, calls, serpapi_key, pc, claim, current_time, issued,
                  window, last>>

pipeFrame == <<searchLocals, validateVars, report_in, extractions, sourcesVars, serviceVars>>

\* the cache after an earlier extraction of doc_short
WarmCache == [k \in {cache_key(doc_short)} |-> <<claim_gdp, claim_context>>]

Queued == [state |-> "queued", request |-> FALSE, result |-> None]

IdlePipeline ==
    /\ analyzed_data = Analyzed(FALSE, <<>>, FALSE, <<>>, "absent")
    /\ ppc = "off"
    /\ claims = <<>>
    /\ futures = <<>>
    /\ validation_results = <<>>
    /\ extract_call = "none"
    /\ answered = 0

\* validate_claims is called with some analyzed_data; the fact cache is
\* empty or holds an earlier extraction of the same text
InitPipeline ==
    /\ analyzed_data \in AnalyzedInputs
    /\ ppc = "start"
    /\ claims = <<>>
    /\ futures = <<>>
    /\ validation_results = <<>>
    /\ extract_call = "none"
    /\ answered = 0

\* an external call that answered (did not fail)
Answers(o) == IF o.t = "exception" THEN 0 ELSE 1

SearchAnswers(o) == IF o.kind = "ok" THEN 1 ELSE 0

\* lines 152, 219-224: the claims are extracted and every one is submitted
\* to the executor
ExtractClaims(outcome) ==
    /\ ppc = "start"
    /\ LET x == extract_claims_from_raw_text(analyzed_data, fact_cache, outcome)
       IN  /\ claims' = x.claims
           /\ fact_cache' = x.cache
           /\ futures' = [i \in 1..Len(x.claims) |-> Queued]
           /\ extract_call' = IF ~x.invoked THEN "none"
                              ELSE IF outcome.t = "exception" THEN "failed"
                              ELSE "answered"
    /\ ppc' = "validating"
    /\ UNCHANGED <<analyzed_data, validation_results, answered, report, rlVars,
                   limited_at, pipeFrame>>

Running == {i \in DOMAIN futures : futures[i].state = "running"}

\* a free pool thread takes the oldest queued task and runs
\* _validate_single_claim up to the search request: the context (line 393),
\* then lines 464-474 with _check_rate_limit
StartTask(i) ==
    /\ ppc = "validating"
    /\ futures[i].state = "queued"
    /\ \A j \in 1..(i - 1) : futures[j].state # "queued"
    /\ Cardinality(Running) < max_workers
    /\ IF context_raises(analyzed_data)
       THEN /\ futures' = [futures EXCEPT ![i] =
                              [state |-> "done", request |-> FALSE,
                               result |-> Raised("TypeError")]]
            /\ UNCHANGED <<rate_limited, last_search_time>>
       ELSE IF ~serpapi_key \/ should_skip_web_search(claims[i])
       THEN /\ futures' = [futures EXCEPT ![i].state = "running"]
            /\ UNCHANGED <<rate_limited, last_search_time>>
       ELSE IF rate_limited /\ ~reset_passed(now, rate_limit_reset_time)
       THEN /\ futures' = [futures EXCEPT ![i].state = "running"]
            /\ UNCHANGED <<rate_limited, last_search_time>>
       ELSE /\ futures' = [futures EXCEPT ![i] = [@ EXCEPT !.state = "running",
                                                           !.request = TRUE]]
            /\ rate_limited' = FALSE
            /\ last_search_time' = IF too_soon(now, last_search_time)
                                   THEN last_search_time ELSE now
    /\ UNCHANGED <<analyzed_data, ppc, claims, validation_results, extract_call,
                   answered, fact_cache, report, rate_limit_reset_time, limited_at,
                   pipeFrame>>

\* the rest of _validate_single_claim: the search request if one is due
\* (lines 476-515), the model call and the parse (lines 401-426)
FinishTask(i, so, mo) ==
    /\ ppc = "validating"
    /\ futures[i].state = "running"
    /\ LET requested == futures[i].request
           proof_sources == IF requested /\ so.kind = "ok"
                            THEN SourcesFromBody(so.body) ELSE <<>>
           limited == requested /\ so.kind = "status" /\ so.code = 429
           n == (IF requested THEN SearchAnswers(so) ELSE 0) + Answers(mo)
       IN  /\ answered + n <= MaxAnswers
           /\ answered' = answered + n
           /\ rate_limited' = IF limited THEN TRUE ELSE rate_limited
           /\ rate_limit_reset_time' =
                 IF limited THEN now + BACKOFF ELSE rate_limit_reset_time
           /\ limited_at' = IF limited THEN now ELSE limited_at
           /\ futures' = [futures EXCEPT ![i] =
                             [state |-> "done", request |-> requested,
                              result |-> CompleteValidation(claims[i], mo, proof_sources)]]
    /\ UNCHANGED <<analyzed_data, ppc, claims, validation_results, extract_call,
                   fact_cache, report, last_search_time, pipeFrame>>

\* lines 235-243: the result built when future.result() raised
CollectErrorResult(c) ==
    [claim |-> c,
     status |-> UNCERTAIN,
     confidence_score |-> 0,
     explanation |-> JStr("Validation failed due to error", 30),
     proof_sources |-> <<>>,
     replacement_suggestion |-> None,
     recommendations |-> JList(<<JStr("Manual review required due to validation error", 46)>>)]

\* future.result() with no except clause around it
future_result_uncaught(f, c) == f.result

\* lines 229-244: future.result() inside try / except Exception
future_result(f, c) ==
    IF f.result.t = "raised" THEN Parsed(CollectErrorResult(c), "error") ELSE f.result

\* the loop of lines 227-244 without the append of line 244
CollectDropsFailed(i) ==
    /\ ppc = "validating"
    /\ futures[i].state = "done"
    /\ futures' = [futures EXCEPT ![i].state = "collected"]
    /\ validation_results' =
          IF futures[i].result.t = "raised" THEN validation_results
          ELSE Append(validation_results, futures[i].result.r)
    /\ ppc' = ppc
    /\ UNCHANGED <<analyzed_data, claims, extract_call, answered, fact_cache, report,
                   rlVars, limited_at, pipeFrame>>

\* lines 227-244: as_completed hands over any completed future
Collect(i) ==
    /\ ppc = "validating"
    /\ futures[i].state = "done"
    /\ LET got == future_result(futures[i], claims[i])
       IN  IF got.t = "raised"
           THEN /\ ppc' = "raised"
                /\ UNCHANGED <<futures, validation_results>>
           ELSE /\ futures' = [futures EXCEPT ![i].state = "collected"]
                /\ validation_results' = Append(validation_results, got.r)
                /\ ppc' = ppc
    /\ UNCHANGED <<analyzed_data, claims, extract_call, answered, fact_cache, report,
                   rlVars, limited_at, pipeFrame>>

\* lines 157-159: every future is collected; the report is built and returned
ReturnReport ==
    /\ ppc = "validating"
    /\ \A i \in DOMAIN futures : futures[i].state = "collected"
    /\ report' = generate_validation_report(validation_results)
    /\ ppc' = "done"
    /\ UNCHANGED <<analyzed_data, claims, futures, validation_results, extract_call,
                   answered, fact_cache, rlVars, limited_at, pipeFrame>>

----------------------------------------------------------------------------
(* Specifications                                                          *)

vars ==
    <<allSearchVars, validateVars, reportVars, extractVars, pipeVars, sourcesVars, serviceVars>>

otherThanSearch == <<validateVars, reportVars, extractVars, pipeVars, sourcesVars, serviceVars>>

InitSeq ==
    InitSearch /\ IdleValidate /\ IdleReport /\ IdleExtract /\ IdlePipeline
    /\ IdleSources /\ IdleService

\* searches issued one at a time
NextSeq ==
    /\ \/ \E c \in ClaimTexts : SearchCallAlone(1, c)
       \/ SearchStep(1)
       \/ \E d \in TickSteps : Tick(d)
    /\ UNCHANGED otherThanSearch

SpecSeq == InitSeq /\ [][NextSeq]_vars

InitConc ==
    InitSearch /\ IdleValidate /\ IdleReport /\ IdleExtract /\ IdlePipeline
    /\ IdleSources /\ IdleService

\* concurrent searches on the shared rate-limit state
NextConc ==
    /\ \/ \E w \in 1..SearchThreads, c \in WorkerClaims : SearchCall(w, c)
       \/ \E w \in 1..SearchThreads : SearchStep(w)
       \/ \E d \in TickSteps : Tick(d)
    /\ UNCHANGED otherThanSearch

SpecConc == InitConc /\ [][NextConc]_vars

InitValidateSpec ==
    IdleSearch /\ InitValidate /\ IdleReport /\ IdleExtract /\ IdlePipeline
    /\ IdleSources /\ IdleService

\* one claim validated against every model outcome
NextValidateSpec ==
    NextValidate
    /\ UNCHANGED <<allSearchVars, reportVars, extractVars, pipeVars, sourcesVars, serviceVars>>

SpecValidate == InitValidateSpec /\ [][NextValidateSpec]_vars

InitReport ==
    IdleSearch /\ IdleValidate /\ IdleReport /\ IdleExtract /\ IdlePipeline
    /\ IdleSources /\ IdleService

\* _generate_validation_report on every list of up to MaxResults results
NextReport ==
    /\ \/ ReportEmpty
       \/ \E r \in SampleResults : ReportOn(r)
    /\ UNCHANGED <<allSearchVars, validateVars, extractVars, pipeVars, sourcesVars, serviceVars>>

SpecReport == InitReport /\ [][NextReport]_vars

InitExtract ==
    IdleSearch /\ IdleValidate /\ IdleReport /\ IdleExtract /\ IdlePipeline
    /\ IdleSources /\ IdleService

\* calls of the claim extractor, one after the other
NextExtract ==
    /\ \E content \in Documents, outcome \in ExtractOutcomes : Extract(content, outcome)
    /\ UNCHANGED <<allSearchVars, validateVars, reportVars, pipeVars, sourcesVars, serviceVars>>

SpecExtract == InitExtract /\ [][NextExtract]_vars

InitSources ==
    IdleSearch /\ IdleValidate /\ IdleReport /\ IdleExtract /\ IdlePipeline
    /\ IdleSources /\ IdleService

\* one successful search on every provider body
NextSources ==
    /\ \E body \in ProviderBodies : SearchReturns(body)
    /\ UNCHANGED <<allSearchVars, validateVars, reportVars, extractVars, pipeVars,
                   serviceVars>>

SpecSources == InitSources /\ [][NextSources]_vars

InitService ==
    IdleSearch /\ IdleValidate /\ IdleReport /\ IdleExtract /\ IdlePipeline
    /\ IdleSources /\ \E k \in KeySettings : ServiceAt(k)

\* the service from start-up on, and constructions of the agent by other code
NextService ==
    /\ \/ Startup
       \/ \E a \in ArgKeys, s \in ArgKeys : Construct(a, s)
       \/ \E u \in Uploads, o \in ValidationOutcomes : CreateSlides(u, o)
    /\ UNCHANGED <<allSearchVars, validateVars, reportVars, extractVars, pipeVars,
                   sourcesVars>>

SpecService == InitService /\ [][NextService]_vars

InitPipelineSpec ==
    /\ InitSearch /\ IdleValidate /\ IdleReport /\ IdleSources /\ IdleService
    /\ fact_cache \in {EmptyCache, WarmCache}
    /\ extractions = <<>>
    /\ InitPipeline

\* one call of validate_claims
NextPipeline ==
    \/ \E outcome \in ExtractOutcomes : ExtractClaims(outcome)
    \/ \E i \in DOMAIN futures : StartTask(i)
    \/ \E i \in DOMAIN futures, so \in PipeSearchOutcomes, mo \in PipeModelOutcomes :
          FinishTask(i, so, mo)
    \/ \E i \in DOMAIN futures : Collect(i)
    \/ ReturnReport

SpecPipeline == InitPipelineSpec /\ [][NextPipeline]_vars

\* once the claims are submitted, the steps of validate_claims that wait
\* for nothing outside the process are taken sooner or later.  FinishTask
\* waits for chat.completions.create (lines 402-410), which is called with
\* no timeout on a client built with none (line 98); as_completed (line
\* 227) and the executor's exit have none either, so nothing in the code
\* ends such a wait.
FairPipeline ==
    /\ WF_vars(\E i \in DOMAIN futures : StartTask(i))
    /\ WF_vars(\E i \in DOMAIN futures : Collect(i))
    /\ WF_vars(ReturnReport)

\* one call of validate_claims whose model calls may never answer
SpecPipelineFair == InitPipelineSpec /\ [][NextPipeline]_vars /\ FairPipeline

----------------------------------------------------------------------------
(* Claims about the rate-limit state machine and the skip list             *)

\* C1: with searches issued one at a time, a search call that starts while the
\* clock is within 300 s of the latest 429 (the clock reading
\* _handle_rate_limit took for it) sends no request and returns [], and a
\* call for a searchable claim that starts after those 300 s sends a request.
C1_BackoffWindow ==
    /\ \A w \in Workers :
          window[w] = "within" => issued[w] = "no" /\ pc[w] \in {"crl_limited", "crl_reset"}
    /\ last.window = "within" => last.issued = "no" /\ last.ret = <<>>
    /\ (last.window = "after" /\ serpapi_key /\ ~should_skip_web_search(last.claim))
          => last.issued # "no"

\* a call inside the window has returned [] and the next call, after the
\* window, is about to send its request
C1_Witness ==
    /\ limited_at # -1
    /\ last.window = "within" /\ last.claim = claim_gdp /\ last.ret = <<>>
    /\ window[1] = "after" /\ pc[1] = "request"

\* C3: no thread sends a search request at a moment when the shared state is
\* BACKOFF (rate limited, reset time not passed).
C3_NoRequestInBackoff ==
    /\ \A w \in Workers : issued[w] # "backoff"
    /\ last.issued # "backoff"

\* the claim text contains a skip-list keyword, compared case-insensitively
HasSkipKeyword(c) ==
    \E p \in skip_patterns :
        \E i \in 0..(Len(c) - Len(p)) : \A j \in 1..Len(p) : LowerChar(c[i + j]) = p[j]

\* C9: a search call for a claim that contains a skip-list keyword, in any
\* letter case, returns [] and sends no request, whatever the rate-limit
\* state.
C9_SkipListNoRequest ==
    /\ \A w \in Workers : pc[w] # "idle" => ~HasSkipKeyword(claim[w])
    /\ HasSkipKeyword(last.claim) => last.issued = "no" /\ last.ret = <<>>

\* an upper-case keyword claim was skipped while the state is BACKOFF
C9_Witness ==
    /\ last.claim = claim_upper_slide
    /\ last.issued = "no"
    /\ InBackoff

----------------------------------------------------------------------------
(* Claims about the ValidationResult of one claim                          *)

\* the response is text in which the parser finds no JSON object
NoParseableJson(o) ==
    /\ o.t = "response"
    /\ Responses[o.i].t = "text"
    /\ \/ Find(Responses[o.i].text, "{") = -1
       \/ RFind(Responses[o.i].text, "}") < Find(Responses[o.i].text, "{")
       \/ Responses[o.i].json.t = "JSONDecodeError"

\* the response holds a JSON object whose status is none of the four values
ObjectWithBadStatus(o) ==
    /\ o.t = "response"
    /\ Responses[o.i].t = "text"
    /\ ~NoParseableJson(o)
    /\ "status" \in DOMAIN Responses[o.i].json.d
    /\ LET s == Responses[o.i].json.d["status"]
       IN  ~(s.t = "str" /\ s.s \in {"valid", "invalid", "uncertain", "needs_review"})

\* C7: every ValidationResult has 0.0 <= confidence_score <= 1.0.
C7_ConfidenceInRange ==
    vresult.t = "result" =>
        vresult.r.confidence_score >= 0 /\ vresult.r.confidence_score <= 100

\* C8: every ValidationResult has one of the four statuses, and a parsed
\* object whose status is none of them is handled by the fallback parser.
C8_StatusFromFallback ==
    vresult.t = "result" =>
        /\ vresult.r.status \in {"valid", "invalid", "uncertain", "needs_review"}
        /\ ObjectWithBadStatus(voutcome) => vresult.path = "fallback"

\* a value is a non-empty string
NonEmptyText(e) ==
    \/ e.t = "text" /\ Len(e.chars) > 0
    \/ e.t = "str" /\ e.len > 0

\* C10: for a response with no parseable JSON object, parsing does not raise
\* and the result has a non-empty explanation and at least one recommendation.
C10_FallbackExplains ==
    (vresult.t = "result" /\ NoParseableJson(voutcome)) =>
        /\ vresult.path = "fallback"
        /\ NonEmptyText(vresult.r.explanation)
        /\ vresult.r.recommendations.t = "list"
        /\ Len(vresult.r.recommendations.items) >= 1

----------------------------------------------------------------------------
(* Claims about the report, the extractor and validate_claims              *)

\* the number of results with a status, counted over the indices
IndexCount(results, status) ==
    Cardinality({i \in DOMAIN results : results[i].status = status})

RECURSIVE SumTo(_, _)
\* the sum of the first n confidence scores
SumTo(results, n) ==
    IF n = 0 THEN 0 ELSE results[n].confidence_score + SumTo(results, n - 1)

ExampleResults ==
    <<SampleResult(VALID, 90), SampleResult(VALID, 80), SampleResult(INVALID, 60),
      SampleResult(UNCERTAIN, 30), SampleResult(VALID, 95)>>

\* C5: the report of a list of results has total_claims = the number of
\* results, valid/invalid/uncertain_claims = the number of results with that
\* status, and overall_confidence = the mean of the confidence scores (0.0
\* for the empty list); the example list gives 3/1/1, total 5 and mean 0.71.
C5_ReportTallies ==
    report.t = "report" =>
        /\ report.total_claims = Len(report_in)
        /\ report.valid_claims = IndexCount(report_in, VALID)
        /\ report.invalid_claims = IndexCount(report_in, INVALID)
        /\ report.uncertain_claims = IndexCount(report_in, UNCERTAIN)
        /\ report.overall_confidence.den > 0
        /\ report.overall_confidence.num * (IF report_in = <<>> THEN 1 ELSE Len(report_in))
              = SumTo(report_in, Len(report_in)) * report.overall_confidence.den
        /\ report_in = <<>> => report.overall_confidence.num = 0
        /\ report_in = ExampleResults =>
              /\ report.valid_claims = 3 /\ report.invalid_claims = 1
              /\ report.uncertain_claims = 1 /\ report.total_claims = 5
              /\ report.overall_confidence.num = 71 * report.overall_confidence.den

\* the example list has been reported
C5_Witness ==
    /\ report_in = ExampleResults
    /\ report.t = "report"
    /\ report.valid_claims = 3
    /\ report.overall_confidence.num = 355

C2_AlwaysReport ==
    /\ ppc # "raised"
    /\ ppc = "done" =>
          /\ report.t = "report"
          /\ report.results = validation_results
          /\ report.total_claims = Len(claims)
          /\ Len(report.results) = Len(claims)
          /\ report.valid_claims = IndexCount(report.results, VALID)
          /\ report.invalid_claims = IndexCount(report.results, INVALID)
          /\ report.uncertain_claims = IndexCount(report.results, UNCERTAIN)
          /\ \A i \in DOMAIN report.results : report.results[i].status \in ValidationStatus
          /\ (answered = 0 /\ extract_call # "answered") =>
                \A i \in DOMAIN report.results :
                    /\ report.results[i].status = UNCERTAIN
                    /\ report.results[i].confidence_score = 0

\* every search request and every model call of a run on legacy data
\* failed, and the report holds two uncertain results
C2_Witness ==
    /\ ppc = "done"
    /\ extract_call # "answered" /\ answered = 0
    /\ ~context_raises(analyzed_data)
    /\ \E i \in DOMAIN futures : futures[i].request
    /\ report.t = "report"
    /\ report.total_claims = 2 /\ report.uncertain_claims = 2

\* C6: a report of validate_claims has total_claims = valid + invalid +
\* uncertain + the number of needs_review results, so the three tallies sum
\* to less than total_claims exactly when some result is needs_review.
C6_TalliesAndNeedsReview ==
    ppc = "done" =>
        LET tallied == report.valid_claims + report.invalid_claims + report.uncertain_claims
            review == IndexCount(report.results, NEEDS_REVIEW)
        IN  /\ report.total_claims = tallied + review
            /\ (tallied < report.total_claims) <=> (review > 0)

\* a returned report with a needs_review result that no tally counts
C6_Witness ==
    /\ ppc = "done"
    /\ report.t = "report"
    /\ \E i \in DOMAIN report.results : report.results[i].status = NEEDS_REVIEW
    /\ report.valid_claims + report.invalid_claims + report.uncertain_claims
          < report.total_claims

----------------------------------------------------------------------------
(* Claims about one validation, the worker pool and the proof sources      *)

ManualReviewError == JStr("Manual review required due to validation error", 46)

\* C11: when the model call of _validate_single_claim raises, the call
\* returns a result for the same claim with status uncertain, confidence
\* 0.0, no proof sources, no replacement suggestion and the manual-review
\* recommendation.
C11_ModelCallRaises ==
    (vresult.t # "pending" /\ voutcome.t = "exception") =>
        /\ vresult.t = "result"
        /\ vresult.r.claim = vclaim
        /\ vresult.r.status = "uncertain"
        /\ vresult.r.confidence_score = 0
        /\ vresult.r.proof_sources = <<>>
        /\ vresult.r.replacement_suggestion = None
        /\ vresult.r.recommendations.t = "list"
        /\ \E k \in DOMAIN vresult.r.recommendations.items :
              vresult.r.recommendations.items[k] = ManualReviewError

\* the model call raised for a claim whose search had found two sources
C11_Witness ==
    /\ voutcome.t = "exception"
    /\ vresult.t = "result"
    /\ vclaim = claim_gdp
    /\ Len(vsources) = 2
    /\ vresult.r.proof_sources = <<>>

Collected == {i \in DOMAIN futures : futures[i].state = "collected"}

\* the validation of claim i ended with an exception
ValidationFailed(i) ==
    \/ futures[i].result.t = "raised"
    \/ futures[i].result.t = "result" /\ futures[i].result.path = "error"

\* r is the result that the collected future i stands for
ResultFor(i, r) ==
    /\ r.claim = claims[i]
    /\ ValidationFailed(i) => r.status = "uncertain" /\ r.confidence_score = 0
    /\ futures[i].result.t = "result" => r = futures[i].result.r

\* C12: in every completion order the results are, one for one, those of the
\* collected claims (a permutation of the submitted claims once all are
\* collected), a failed validation gives an uncertain result with confidence
\* 0.0, and the other results are kept as their validations returned them.
C12_OneResultPerClaim ==
    /\ Len(validation_results) = Cardinality(Collected)
    /\ \A k \in DOMAIN validation_results :
          Cardinality({j \in DOMAIN validation_results :
                          validation_results[j] = validation_results[k]})
             = Cardinality({i \in Collected : ResultFor(i, validation_results[k])})
    /\ ppc = "done" =>
          /\ Collected = DOMAIN claims
          /\ \A i \in DOMAIN claims :
                Cardinality({j \in DOMAIN claims : claims[j] = claims[i]})
                   = Cardinality({k \in DOMAIN validation_results :
                                     validation_results[k].claim = claims[i]})

\* two different claims came back in the other order, the first validated
\* and the second failed
C12_Witness ==
    /\ ppc = "done"
    /\ Len(claims) = 2 /\ claims[1] # claims[2]
    /\ validation_results[1].claim = claims[2]
    /\ validation_results[2].claim = claims[1]
    /\ validation_results[1].status = "uncertain"
    /\ validation_results[1].confidence_score = 0
    /\ validation_results[2].status = "valid"

\* C13: at most 5 claims are dispatched to validation and the report's
\* total_claims is at most 5, for claims from the extractor and from the
\* legacy fallback.
C13_AtMostFiveClaims ==
    /\ Len(claims) <= 5
    /\ Cardinality(DOMAIN futures) <= 5
    /\ Len(validation_results) <= 5
    /\ ppc = "done" => report.total_claims <= 5

\* the model returned six statements and the report counts five claims
C13_Witness ==
    /\ ppc = "done"
    /\ analyzed_data.has_text
    /\ cache_key(analyzed_data.extracted_text) \in DOMAIN fact_cache
    /\ Len(fact_cache[cache_key(analyzed_data.extracted_text)]) = 6
    /\ report.total_claims = 5

\* the organic results of the provider's body
Organic ==
    IF "organic_results" \in DOMAIN provider_body
    THEN provider_body["organic_results"] ELSE <<>>

\* source s is built from organic result r
BuiltFrom(s, r) ==
    /\ s.url = (IF "link" \in DOMAIN r THEN r["link"] ELSE <<>>)
    /\ s.title = (IF "title" \in DOMAIN r THEN r["title"] ELSE <<>>)
    /\ s.reliability_score = calculate_reliability_score(r)

\* C14: a successful search returns at most 2 proof sources, each built from
\* an organic result of its own, in non-increasing order of reliability
\* score, and no result left out scores strictly higher than a returned one.
C14_TopTwoByReliability ==
    provider_body # None =>
        /\ Len(returned_sources) <= 2
        /\ \A k \in 1..(Len(returned_sources) - 1) :
              returned_sources[k].reliability_score
                 >= returned_sources[k + 1].reliability_score
        /\ \E f \in [DOMAIN returned_sources -> DOMAIN Organic] :
              /\ \A a, b \in DOMAIN returned_sources : a # b => f[a] # f[b]
              /\ \A k \in DOMAIN returned_sources :
                    BuiltFrom(returned_sources[k], Organic[f[k]])
              /\ \A i \in DOMAIN Organic :
                    (\A k \in DOMAIN returned_sources : f[k] # i) =>
                        \A k \in DOMAIN returned_sources :
                            calculate_reliability_score(Organic[i])
                               <= returned_sources[k].reliability_score

\* three results in rising order of reliability: the two best are returned,
\* best first
C14_Witness ==
    /\ provider_body = [organic_results |-> <<r_blog, r_cnn, r_gov>>]
    /\ returned_sources = <<MakeProofSource(r_gov), MakeProofSource(r_cnn)>>

\* C15: no two proof sources returned by one search have the same url.
C15_DistinctUrls ==
    \A a, b \in DOMAIN returned_sources :
        a # b => returned_sources[a].url # returned_sources[b].url

\* text s contains the domain d, letter case aside
HasDomain(s, d) ==
    \E i \in 0..(Len(s) - Len(d)) : \A j \in 1..Len(d) : LowerChar(s[i + j]) = d[j]

HighTrust(url) == \E d \in high_reliability_domains : HasDomain(url, d)

MediumTrust(url) == \E d \in medium_reliability_domains : HasDomain(url, d)

\* C16: a result whose URL contains a high-trust domain scores 0.9, whatever
\* its title and whether or not the URL also contains a medium-trust domain;
\* one with a medium-trust domain and no high-trust one scores 0.7; any
\* other scores 0.5; every score lies in [0,1].
C16_ScoreByDomain ==
    \A k \in DOMAIN returned_sources :
        LET s == returned_sources[k]
        IN  /\ HighTrust(s.url) => s.reliability_score = 90
            /\ (MediumTrust(s.url) /\ ~HighTrust(s.url)) => s.reliability_score = 70
            /\ (~MediumTrust(s.url) /\ ~HighTrust(s.url)) => s.reliability_score = 50
            /\ s.reliability_score >= 0 /\ s.reliability_score <= 100

\* a URL with a medium-trust and a high-trust domain and a skip-list word as
\* title scored 0.9, next to an upper-case .EDU URL
C16_Witness ==
    /\ Len(returned_sources) = 2
    /\ returned_sources[1].url = url_cnn_gov
    /\ returned_sources[1].title = kw_text
    /\ returned_sources[1].reliability_score = 90
    /\ returned_sources[2].url = url_upper_edu
    /\ returned_sources[2].reliability_score = 90

\* C17: every ValidationResult with a replacement suggestion has status
\* invalid.
C17_ReplacementOnlyIfInvalid ==
    (vresult.t = "result" /\ vresult.r.replacement_suggestion # None) =>
        vresult.r.status = "invalid"

\* no OpenAI key in config.py or in the environment
NoOpenAIKey == ~TruthyKey(keys.config_openai) /\ ~TruthyKey(keys.env_openai)

Rejections ==
    {HTTPError(500, "Analyzer not available"),
     HTTPError(500, "Validation agent not available")}

\* C18: with no OpenAI key (argument, config and environment all empty) the
\* constructor raises before it creates a client, and with a key it does not
\* raise, whatever the search key; the service constructs the agent once,
\* and with no key it then holds no agent, has created no client, answers
\* every /create-slides request with a rejection and runs no validation;
\* with an OpenAI key it holds an agent, with or without a search key.
C18_NoKeyNoAgent ==
    /\ startup_log.constructions <= 1
    /\ (service = "up" /\ NoOpenAIKey) =>
          /\ validation_agent = None
          /\ startup_log.clients = 0
          /\ validations_run = 0
          /\ requests > 0 => response \in Rejections
    /\ (service = "up" /\ ~NoOpenAIKey) =>
          /\ validation_agent # None
          /\ startup_log = [constructions |-> 1, clients |-> 1]
    /\ constructed # None =>
          /\ (constructed.ret = Raised("ValueError")) <=>
                (~TruthyKey(constructed.api_key) /\ NoOpenAIKey)
          /\ (constructed.ret = Raised("ValueError")) => constructed.clients = 0
          /\ (constructed.ret # Raised("ValueError")) => constructed.clients = 1

\* the service started with no OpenAI key and a search key, rejected two
\* requests, and a construction with no arguments raised
C18_Witness ==
    /\ NoOpenAIKey
    /\ TruthyKey(keys.env_serpapi)
    /\ service = "up"
    /\ validation_agent = None
    /\ requests = 2
    /\ response \in Rejections
    /\ constructed # None
    /\ constructed.api_key = Unset
    /\ constructed.ret = Raised("ValueError")

\* the validations that a pool thread has started and not finished
InFlight == {i \in DOMAIN futures : futures[i].state = "running"}

\* C19: during one validate_claims call at most 3 single-claim validations
\* are in flight at any moment, however many claims there are.
C19_AtMostThreeInFlight ==
    /\ Cardinality(InFlight) <= 3
    /\ \A i \in DOMAIN futures :
          futures[i].state = "queued" =>
             \A j \in (i + 1)..Len(futures) : futures[j].state = "queued"

\* three of five validations are in flight, one with its search request
\* due, and two wait for a thread
C19_Witness ==
    /\ ppc = "validating"
    /\ Len(futures) = 5
    /\ Cardinality(InFlight) = 3
    /\ \E i \in InFlight : futures[i].request
    /\ Cardinality({i \in DOMAIN futures : futures[i].state = "queued"}) = 2

\* C20: every blocking external call has a bounded timeout after which it
\* is treated as failed, so validate_claims returns a report in the end even
\* when an external call never responds: once the claims are submitted the
\* report is returned.
C20_EventuallyReturns == (ppc = "validating") ~> (ppc = "done")

-----------------------------------------------------------------------------
(* Claims about the two parsers                                            *)

\* the items of proof_sources_used in the object the response holds
ListedIndices ==
    LET d == Responses[voutcome.i].json.d
    IN  IF "proof_sources_used" \in DOMAIN d /\ d["proof_sources_used"].t = "list"
        THEN d["proof_sources_used"].items
        ELSE <<>>

RECURSIVE PickListed(_, _, _)
\* sources[i] for each listed i in 1..Len(sources), in listed order; with
\* `bools`, true counts as the integer 1
PickListed(items, sources, bools) ==
    IF items = <<>> THEN <<>>
    ELSE LET x == Head(items)
             i == IF x.t = "int" THEN x.n
                  ELSE IF bools /\ x.t = "bool" /\ x.b THEN 1
                  ELSE 0
         IN  (IF 1 <= i /\ i <= Len(sources) THEN <<sources[i]>> ELSE <<>>)
             \o PickListed(Tail(items), sources, bools)

PrimaryResult == vresult.t = "result" /\ vresult.path = "primary"

\* the first min(k, n) of the n sources
FirstOf(sources, k) ==
    [i \in 1..(IF Len(sources) < k THEN Len(sources) ELSE k) |-> sources[i]]

\* C21 as stated: in the primary parse path the result's proof_sources are
\* exactly the passed-in sources at the listed integers that are in range,
\* in listed order.
C21_ExactlyListed ==
    PrimaryResult =>
        vresult.r.proof_sources = PickListed(ListedIndices, vsources, FALSE)

\* C21 (amended): in the primary parse path the result's proof_sources are
\* the passed-in sources at the listed integers in range, in listed order,
\* true counting as 1, other items dropped; except that a valid result for
\* which none resolves carries the first three passed-in sources.  Every
\* attached source is an element of the list passed in.
C21_ListedOrDefault ==
    PrimaryResult =>
        LET listed == PickListed(ListedIndices, vsources, TRUE)
        IN  /\ vresult.r.proof_sources =
                  IF vresult.r.status = "valid" /\ listed = <<>>
                  THEN FirstOf(vsources, 3)
                  ELSE listed
            /\ \A k \in DOMAIN vresult.r.proof_sources :
                  \E j \in DOMAIN vsources : vresult.r.proof_sources[k] = vsources[j]

\* [0,-1,3,"1",1.0,true,2] against four sources gave the third, first and
\* second
C21_Witness ==
    /\ PrimaryResult
    /\ Len(ListedIndices) = 7
    /\ Len(vsources) = 4
    /\ vresult.r.proof_sources = <<vsources[3], vsources[1], vsources[2]>>

\* C22: in the primary parse path, when the model marks the claim valid, no
\* listed index resolves to a source and proof sources were passed in, the
\* result carries the first min(3, n) of them; so a valid result of this
\* path has no proof sources only if none were passed in.
C22_ValidCarriesEvidence ==
    (PrimaryResult /\ vresult.r.status = "valid") =>
        /\ (PickListed(ListedIndices, vsources, TRUE) = <<>> /\ vsources # <<>>) =>
              /\ vresult.r.proof_sources = FirstOf(vsources, 3)
              /\ Len(vresult.r.proof_sources) \in 1..3
        /\ vresult.r.proof_sources = <<>> => vsources = <<>>

\* a valid response listing only index 9 against four sources carries the
\* first three
C22_Witness ==
    /\ PrimaryResult
    /\ vresult.r.status = "valid"
    /\ Len(vsources) = 4
    /\ Len(ListedIndices) = 1
    /\ ListedIndices[1].t = "int" /\ ListedIndices[1].n = 9
    /\ vresult.r.proof_sources = <<vsources[1], vsources[2], vsources[3]>>

FallbackResult == vresult.t = "result" /\ vresult.path = "fallback"

\* the raw response contains the word, letter case aside
Says(word) == HasDomain(Responses[voutcome.i].text, word)

\* C23: the fallback parser gives status invalid whenever the lower-cased
\* response contains "invalid", valid when it contains "valid" and not
\* "invalid", uncertain otherwise; it attaches proof sources, at most two,
\* only when the status is valid, never a replacement suggestion, and always
\* the manual-review recommendation.
C23_FallbackByKeyword ==
    FallbackResult =>
        /\ vresult.r.status =
              IF Says(<<"i", "n", "v", "a", "l", "i", "d">>) THEN "invalid"
              ELSE IF Says(<<"v", "a", "l", "i", "d">>) THEN "valid"
              ELSE "uncertain"
        /\ vresult.r.proof_sources # <<>> => vresult.r.status = "valid"
        /\ vresult.r.proof_sources = FirstOf(vresult.r.proof_sources, 2)
        /\ vresult.r.status = "valid" => vresult.r.proof_sources = FirstOf(vsources, 2)
        /\ vresult.r.replacement_suggestion = None
        /\ vresult.r.recommendations =
              JList(<<JStr("Manual review recommended due to parsing issues", 47)>>)

\* "{not json: invalid}" against four sources: invalid, with no source
C23_Witness ==
    /\ FallbackResult
    /\ Responses[voutcome.i] = resp_nonjson
    /\ Len(vsources) = 4
    /\ vresult.r.status = "invalid"
    /\ vresult.r.proof_sources = <<>>

\* C24 as stated: every fallback result has the confidence of its status:
\* 0.8 for valid, 0.7 for invalid, 0.3 for uncertain.
C24_ConfidencePerStatus ==
    FallbackResult =>
        vresult.r.confidence_score =
            CASE vresult.r.status = "valid" -> 80
              [] vresult.r.status = "invalid" -> 70
              [] OTHER -> 30

\* C24 (amended): a fallback result has confidence 0.8 when valid, 0.7 when
\* invalid, and when uncertain 0.3 if the response contains "uncertain" or
\* "unclear" and 0.5 if it does not.
C24_ConfidencePerKeyword ==
    FallbackResult =>
        /\ vresult.r.status \in {"valid", "invalid", "uncertain"}
        /\ vresult.r.confidence_score =
              CASE vresult.r.status = "valid" -> 80
                [] vresult.r.status = "invalid" -> 70
                [] OTHER ->
                     IF \/ Says(<<"u", "n", "c", "e", "r", "t", "a", "i", "n">>)
                        \/ Says(<<"u", "n", "c", "l", "e", "a", "r">>)
                     THEN 30 ELSE 50

\* "no idea" names no keyword: uncertain with confidence 0.5
C24_Witness ==
    /\ FallbackResult
    /\ Responses[voutcome.i] = resp_plain_none
    /\ vresult.r.status = "uncertain"
    /\ vresult.r.confidence_score = 50

-----------------------------------------------------------------------------
(* Claims about the search delay, the 429 and the fact cache               *)

\* C25: in NORMAL state, a search call that _check_rate_limit finds to come
\* before SEARCH_DELAY has elapsed since the last recorded search time goes
\* on without blocking and without the external request: it does not reach
\* requests.get.
C25_TooSoonNoRequest ==
    [][\A w \in Workers :
          (/\ pc[w] = "crl_last"
           /\ ~rate_limited
           /\ current_time[w] - last_search_time < SEARCH_DELAY)
          => pc'[w] # "request"]_vars

\* the "key: value" pseudo-claim of an item of extracted_data
PseudoClaim(item) == item.key \o <<":", " ">> \o item.str

\* C26: whenever analyzed_data contains extracted_text, the claims returned
\* by _extract_claims_from_raw_text come from the claim extractor only: no
\* pseudo-claim is built from extracted_data.
C26_NoPseudoClaimWithText ==
    (ppc # "start" /\ analyzed_data.has_text) =>
        \A i \in DOMAIN claims :
            \A j \in DOMAIN analyzed_data.extracted_data :
                claims[i] # PseudoClaim(analyzed_data.extracted_data[j])

\* the ways a search fails other than by a 429: timeout or connection
\* error, another error status, a body that is not JSON
OtherFailures ==
    {[kind |-> "exception"], [kind |-> "status", code |-> 500], [kind |-> "badjson"]}

SameFirst500(a, b) ==
    LET la == IF Len(a) < 500 THEN Len(a) ELSE 500
        lb == IF Len(b) < 500 THEN Len(b) ELSE 500
    IN  la = lb /\ \A k \in 1..la : a[k] = b[k]

\* C28: after an extraction of text A whose model call succeeded, a later
\* extraction of any text B that agrees with A on its first 500 characters
\* returns A's claim list and does not call the model, whatever follows
\* character 500 and whatever was extracted in between.
C28_CacheKeyedByPrefix ==
    \A i \in DOMAIN extractions : \A j \in DOMAIN extractions :
        (/\ i < j
         /\ extractions[i].invoked /\ ~extractions[i].failed
         /\ SameFirst500(extractions[i].content, extractions[j].content))
        => /\ ~extractions[j].invoked
           /\ extractions[j].ret = extractions[i].ret

\* the claims extracted for a 501-character text are returned for another
\* text that differs only in character 501
C28_Witness ==
    /\ Len(extractions) = 2
    /\ extractions[1].content = doc_a /\ extractions[2].content = doc_b
    /\ extractions[1].invoked /\ ~extractions[1].failed
    /\ ~extractions[2].invoked
    /\ extractions[2].ret = <<claim_gdp>>

\* the first 500 characters of a text
First500(a) == [k \in 1..(IF Len(a) < 500 THEN Len(a) ELSE 500) |-> a[k]]

\* the call that the step to the next state has made
Made == extractions'[Len(extractions')]

\* C30: an extraction whose model call fails returns [] and leaves the fact
\* cache as it was, so a later extraction of the same text calls the model
\* again; the cache changes only by a successful model call, which writes
\* the list it returns, empty or not, under the text's first 500 characters.
C30_FailureNotCached ==
    /\ [](\A i \in DOMAIN extractions : \A j \in DOMAIN extractions :
            (/\ i < j
             /\ extractions[i].failed
             /\ extractions[i].content = extractions[j].content
             /\ \A k \in (i + 1)..(j - 1) :
                   ~SameFirst500(extractions[k].content, extractions[i].content)
                   \/ extractions[k].failed)
            => extractions[j].invoked)
    /\ [][/\ Len(extractions') = Len(extractions) + 1
          /\ Made.failed => (Made.ret = <<>> /\ fact_cache' = fact_cache)
          /\ fact_cache' # fact_cache => (Made.invoked /\ ~Made.failed)
          /\ (Made.invoked /\ ~Made.failed) =>
                /\ DOMAIN fact_cache' = DOMAIN fact_cache \cup {First500(Made.content)}
                /\ fact_cache'[First500(Made.content)] = Made.ret
                /\ \A k \in DOMAIN fact_cache : fact_cache'[k] = fact_cache[k]]_vars

\* the model call for a text failed and nothing was cached; the next call
\* for the same text called the model again, which answered with no
\* statement, and the empty list is cached
C30_Witness ==
    /\ Len(extractions) = 2
    /\ extractions[1].content = doc_a /\ extractions[2].content = doc_a
    /\ extractions[1].failed /\ extractions[1].ret = <<>>
    /\ extractions[2].invoked /\ ~extractions[2].failed
    /\ extractions[2].ret = <<>>
    /\ DOMAIN fact_cache = {doc_500}
    /\ fact_cache[doc_500] = <<>>

\* C29: once a 429 has put the shared state into BACKOFF with the deadline
\* 300 s after it, rate_limited stays true until the clock passes that
\* deadline, under every interleaving of the workers.
C29_BackoffHoldsUntilDeadline ==
    (/\ limited_at # -1
     /\ rate_limit_reset_time = limited_at + BACKOFF
     /\ ~(now > rate_limit_reset_time))
    => rate_limited

====
